---- MODULE Spec2Model ----
(***************************************************************************)
(* A model of datafusion_quality: the RuleSet orchestrator (registration,  *)
(* apply, partition, derived_statistics), the column, table and schema     *)
(* rules, and the part of the DataFrame interface the rules are written    *)
(* against (with_column, filter, select, aggregate, scalar subquery).      *)
(*                                                                         *)
(* A DataFrame is [fields, rows]: fields is the schema, a sequence of      *)
(* [name, type, nullable], and rows is a sequence of rows, each a sequence *)
(* of values parallel to fields.  Values are SQL values: Null, BoolV(b),   *)
(* NumV(n, d) and StrV(s); a number is an exact fraction, so that BETWEEN, *)
(* the comparisons and the averages are exact, and a string is a sequence  *)
(* of characters.                                                          *)
(***************************************************************************)
EXTENDS Integers, Sequences, FiniteSets, TLC

(***************************************************************************)
(* SQL values and Option<T>                                                *)
(***************************************************************************)
Null == [t |-> "null"]

BoolV(b) == [t |-> "bool", b |-> b]

RECURSIVE Gcd(_, _)
Gcd(a, b) == IF b = 0 THEN a ELSE Gcd(b, a % b)

\* a number n/d in lowest terms, d > 0 (Int32, Int64, UInt32 and Float64 values)
NumV(n, d) ==
    LET g == Gcd(IF n < 0 THEN -n ELSE n, d)
    IN  [t |-> "num", n |-> n \div g, d |-> d \div g]

IntV(n) == NumV(n, 1)

StrV(s) == [t |-> "str", s |-> s]

IsNull(v) == v.t = "null"

None == [some |-> FALSE]

Some(x) == [some |-> TRUE, v |-> x]

\* Option<bool>::unwrap_or_default() and unwrap_or(false)
UnwrapOrDefault(o) == IF o.some THEN o.v ELSE FALSE

(***************************************************************************)
(* Results: Ok(value) or Err(kind, detail), kind one of the variants of    *)
(* ValidationError.                                                        *)
(***************************************************************************)
Ok(x) == [ok |-> TRUE, v |-> x]

Err(kind, detail) == [ok |-> FALSE, kind |-> kind, detail |-> detail]

\* the ? operator: an Err returns at once, an Ok hands its value on
AndThen(r, Rest(_)) == IF r.ok THEN Rest(r.v) ELSE r

(***************************************************************************)
(* Schema lookup                                                           *)
(***************************************************************************)
Names(df) == [k \in 1..Len(df.fields) |-> df.fields[k].name]

HasField(df, name) == \E k \in 1..Len(df.fields) : df.fields[k].name = name

FieldIndex(df, name) == CHOOSE k \in 1..Len(df.fields) : df.fields[k].name = name

Field(name, type, nullable) == [name |-> name, type |-> type, nullable |-> nullable]

(***************************************************************************)
(* Expressions.  The rules build an Expr and hand it to the DataFrame; the *)
(* tree is a record whose op names the node.                               *)
(***************************************************************************)
col(name) == [op |-> "col", name |-> name]

lit(v) == [op |-> "lit", v |-> v]

is_null(e) == [op |-> "is_null", e |-> e]

is_not_null(e) == [op |-> "is_not_null", e |-> e]

Between(e, negated, low, high) ==
    [op |-> "between", e |-> e, negated |-> negated, low |-> low, high |-> high]

\* Expr::like, not_like, ilike, not_ilike
Like(e, p, negated, ci) == [op |-> "like", e |-> e, p |-> p, negated |-> negated, ci |-> ci]

\* Expr::lt, lt_eq, gt, gt_eq, eq: c is the operator
cmp(c, a, b) == [op |-> "cmp", c |-> c, a |-> a, b |-> b]

not(e) == [op |-> "not", e |-> e]

and(a, b) == [op |-> "and", a |-> a, b |-> b]

char_length(e) == [op |-> "char_length", e |-> e]

cast_boolean(e) == [op |-> "cast_boolean", e |-> e]

(***************************************************************************)
(* Expression evaluation on one row: SQL three-valued logic.               *)
(***************************************************************************)
\* the lower-case form of a character of the alphabet A..D, a..d
ToLower(c) ==
    CASE c = "A" -> "a"
      [] c = "B" -> "b"
      [] c = "C" -> "c"
      [] c = "D" -> "d"
      [] OTHER -> c

LowerStr(s) == [k \in 1..Len(s) |-> ToLower(s[k])]

RECURSIVE LikeMatch(_, _)
\* SQL LIKE: % matches any run of characters, _ one character
LikeMatch(s, p) ==
    IF p = <<>> THEN s = <<>>
    ELSE IF Head(p) = "%"
         THEN LikeMatch(s, Tail(p)) \/ (s # <<>> /\ LikeMatch(Tail(s), p))
         ELSE /\ s # <<>>
              /\ (Head(p) = "_" \/ Head(p) = Head(s))
              /\ LikeMatch(Tail(s), Tail(p))

Not3(a) == IF IsNull(a) THEN Null ELSE BoolV(~a.b)

\* an AND that takes null for false
And3NullAsFalse(a, b) ==
    IF IsNull(a) \/ IsNull(b) THEN BoolV(FALSE) ELSE BoolV(a.b /\ b.b)

And3(a, b) ==
    IF (~IsNull(a) /\ ~a.b) \/ (~IsNull(b) /\ ~b.b) THEN BoolV(FALSE)
    ELSE IF IsNull(a) \/ IsNull(b) THEN Null
    ELSE BoolV(TRUE)

\* a comparison that is false when one side is null
Cmp3NullIsFalse(c, a, b) ==
    IF IsNull(a) \/ IsNull(b) THEN BoolV(FALSE)
    ELSE CASE c = "="  -> BoolV(a = b)
           [] c = "<"  -> BoolV(a.n * b.d < b.n * a.d)
           [] c = "<=" -> BoolV(a.n * b.d <= b.n * a.d)
           [] c = ">"  -> BoolV(a.n * b.d > b.n * a.d)
           [] c = ">=" -> BoolV(a.n * b.d >= b.n * a.d)

Cmp3(c, a, b) ==
    IF IsNull(a) \/ IsNull(b) THEN Null
    ELSE CASE c = "="  -> BoolV(a = b)
           [] c = "<"  -> BoolV(a.n * b.d < b.n * a.d)
           [] c = "<=" -> BoolV(a.n * b.d <= b.n * a.d)
           [] c = ">"  -> BoolV(a.n * b.d > b.n * a.d)
           [] c = ">=" -> BoolV(a.n * b.d >= b.n * a.d)

\* arrow's cast to Boolean: a number is true when it is not zero
CastBoolean(v) ==
    CASE v.t = "null" -> Null
      [] v.t = "bool" -> v
      [] v.t = "num"  -> BoolV(v.n # 0)

RECURSIVE Eval(_, _, _)
Eval(e, df, row) ==
    CASE e.op = "col" -> row[FieldIndex(df, e.name)]
      [] e.op = "lit" -> e.v
      [] e.op = "is_null" -> BoolV(IsNull(Eval(e.e, df, row)))
      [] e.op = "is_not_null" -> BoolV(~IsNull(Eval(e.e, df, row)))
      [] e.op = "between" ->
            LET v == Eval(e.e, df, row)
                in == And3(Cmp3(">=", v, Eval(e.low, df, row)),
                           Cmp3("<=", v, Eval(e.high, df, row)))
            IN  IF e.negated THEN Not3(in) ELSE in
      [] e.op = "like" ->
            LET v == Eval(e.e, df, row)
                m == IF e.ci THEN LikeMatch(LowerStr(v.s), LowerStr(e.p))
                     ELSE LikeMatch(v.s, e.p)
            IN  IF IsNull(v) THEN Null
                ELSE BoolV(IF e.negated THEN ~m ELSE m)
      [] e.op = "cmp" -> Cmp3(e.c, Eval(e.a, df, row), Eval(e.b, df, row))
      [] e.op = "not" -> Not3(Eval(e.e, df, row))
      [] e.op = "and" -> And3(Eval(e.a, df, row), Eval(e.b, df, row))
      [] e.op = "char_length" ->
            LET v == Eval(e.e, df, row)
            IN  IF IsNull(v) THEN Null ELSE IntV(Len(v.s))
      [] e.op = "cast_boolean" -> CastBoolean(Eval(e.e, df, row))

RECURSIVE Columns(_)
\* the column names an expression refers to
Columns(e) ==
    CASE e.op = "col" -> {e.name}
      [] e.op = "lit" -> {}
      [] e.op \in {"is_null", "is_not_null", "like", "not", "char_length",
                   "cast_boolean"} -> Columns(e.e)
      [] e.op = "between" -> Columns(e.e) \cup Columns(e.low) \cup Columns(e.high)
      [] e.op \in {"cmp", "and"} -> Columns(e.a) \cup Columns(e.b)

\* planning fails when the expression names a field the schema does not have
Resolves(e, df) == \A c \in Columns(e) : HasField(df, c)

RECURSIVE TypeOf(_, _)
\* the data type the planner gives an expression
TypeOf(e, df) ==
    CASE e.op = "col" -> df.fields[FieldIndex(df, e.name)].type
      [] e.op = "lit" -> IF e.v.t = "bool" THEN "Boolean"
                         ELSE IF e.v.t = "str" THEN "Utf8" ELSE "Float64"
      [] e.op = "char_length" -> "Int32"
      [] OTHER -> "Boolean"

(***************************************************************************)
(* The DataFrame interface                                                 *)
(***************************************************************************)
\* a with_column that puts a new column in front of the others
WithColumnValuesInFront(df, name, type, vals) ==
    [fields |-> <<Field(name, type, TRUE)>> \o df.fields,
     rows |-> [r \in 1..Len(df.rows) |-> <<vals[r]>> \o df.rows[r]]]

\* a with_column that appends the column even when the name is taken
WithColumnValuesAppends(df, name, type, vals) ==
    [fields |-> Append(df.fields, Field(name, type, TRUE)),
     rows |-> [r \in 1..Len(df.rows) |-> Append(df.rows[r], vals[r])]]

\* DataFrame::with_column(name, expr), one value of expr per row: a field of
\* that name is replaced where it stands, otherwise the column is appended
WithColumnValues(df, name, type, vals) ==
    IF HasField(df, name)
    THEN LET k == FieldIndex(df, name)
         IN  [fields |-> [df.fields EXCEPT ![k] = Field(name, type, TRUE)],
              rows |-> [r \in 1..Len(df.rows) |->
                            [df.rows[r] EXCEPT ![k] = vals[r]]]]
    ELSE [fields |-> Append(df.fields, Field(name, type, TRUE)),
          rows |-> [r \in 1..Len(df.rows) |-> Append(df.rows[r], vals[r])]]

\* a with_column that keeps only the rows on which the expression is true
WithColumnOfTrueRows(df, name, e) ==
    IF ~Resolves(e, df)
    THEN Err("DataFusion", "no field")
    ELSE Ok([fields |-> Append(df.fields, Field(name, TypeOf(e, df), TRUE)),
             rows |-> SelectSeq([r \in 1..Len(df.rows) |->
                                    Append(df.rows[r], Eval(e, df, df.rows[r]))],
                                LAMBDA row : row[Len(row)] = BoolV(TRUE))])

\* DataFrame::with_column(name, expr) for a row-level expression
WithColumn(df, name, e) ==
    IF ~Resolves(e, df)
    THEN Err("DataFusion", "no field")
    ELSE Ok(WithColumnValues(df, name, TypeOf(e, df),
                             [r \in 1..Len(df.rows) |-> Eval(e, df, df.rows[r])]))

\* DataFrame::filter(predicate): the rows on which the predicate is true, in
\* order; a row on which it is false or null is dropped
Filter(df, e) ==
    [fields |-> df.fields,
     rows |-> SelectSeq(df.rows, LAMBDA row : Eval(e, df, row) = BoolV(TRUE))]

\* DataFrame::select_columns(names) / select(col(name), ...)
SelectColumns(df, names) ==
    IF \E k \in 1..Len(names) : ~HasField(df, names[k])
    THEN Err("DataFusion", "no field")
    ELSE Ok([fields |-> [k \in 1..Len(names) |->
                            df.fields[FieldIndex(df, names[k])]],
             rows |-> [r \in 1..Len(df.rows) |->
                          [k \in 1..Len(names) |->
                              df.rows[r][FieldIndex(df, names[k])]]]])

\* a scalar subquery column: the planner joins the outer rows with the rows of
\* the subquery, so each outer row comes once per subquery row (once, with a
\* null, when the subquery has no row)
RECURSIVE Flatten(_)
Flatten(sqs) == IF sqs = <<>> THEN <<>> ELSE Head(sqs) \o Flatten(Tail(sqs))

WithScalarSubquery(df, name, type, sub) ==
    LET vs == IF sub = <<>> THEN <<Null>> ELSE sub
        expanded == [fields |-> df.fields,
                     rows |-> Flatten([r \in 1..Len(df.rows) |->
                                          [g \in 1..Len(vs) |-> df.rows[r]]])]
        vals == Flatten([r \in 1..Len(df.rows) |-> vs])
    IN  WithColumnValues(expanded, name, type, vals)

(***************************************************************************)
(* Column rules (rules/column.rs)                                          *)
(***************************************************************************)
NullRule(negated) == [kind |-> "NullRule", negated |-> negated]

dfq_not_null == NullRule(Some(TRUE))

NullRule_name(rule) ==
    IF UnwrapOrDefault(rule.negated) THEN "not_null" ELSE "null"

NullRule_expr(rule, column_name) ==
    IF UnwrapOrDefault(rule.negated)
    THEN is_not_null(col(column_name))
    ELSE is_null(col(column_name))

RangeRule(min, max, negated) ==
    [kind |-> "RangeRule", min |-> min, max |-> max, negated |-> negated]

dfq_in_range(min, max) == RangeRule(min, max, None)

RangeRule_name(rule) ==
    IF UnwrapOrDefault(rule.negated) THEN "not_in_range" ELSE "in_range"

RangeRule_expr(rule, column_name) ==
    Between(col(column_name), UnwrapOrDefault(rule.negated),
            lit(IntV(rule.min)), lit(IntV(rule.max)))

PatternRule(pattern, negated, case_sensitive) ==
    [kind |-> "PatternRule", pattern |-> pattern, negated |-> negated,
     case_sensitive |-> case_sensitive]

dfq_like(pattern) == PatternRule(pattern, Some(FALSE), Some(TRUE))

PatternRule_name(rule) ==
    LET n == UnwrapOrDefault(rule.negated)
        cs == UnwrapOrDefault(rule.case_sensitive)
    IN  CASE n /\ cs -> "not_like"
          [] ~n /\ cs -> "like"
          [] n /\ ~cs -> "not_ilike"
          [] ~n /\ ~cs -> "ilike"

PatternRule_expr(rule, column_name) ==
    LET n == UnwrapOrDefault(rule.negated)
        cs == UnwrapOrDefault(rule.case_sensitive)
    IN  CASE n /\ cs -> Like(col(column_name), rule.pattern, TRUE, FALSE)
          [] ~n /\ cs -> Like(col(column_name), rule.pattern, FALSE, FALSE)
          [] n /\ ~cs -> Like(col(column_name), rule.pattern, TRUE, TRUE)
          [] ~n /\ ~cs -> Like(col(column_name), rule.pattern, FALSE, TRUE)

ComparisonRule(value, negated, equals, comparison_type) ==
    [kind |-> "ComparisonRule", value |-> value, negated |-> negated,
     equals |-> equals, comparison_type |-> comparison_type]

dfq_not_lt(value) == ComparisonRule(value, TRUE, FALSE, "LessThan")

ComparisonRule_name(rule) ==
    LET t == rule.comparison_type
        n == rule.negated
        e == rule.equals
    IN  CASE t = "LessThan" /\ ~n /\ ~e -> "less_than"
          [] t = "LessThan" /\ ~n /\ e -> "less_than_equals"
          [] t = "LessThan" /\ n /\ ~e -> "not_less_than"
          [] t = "LessThan" /\ n /\ e -> "not_less_than_equals"
          [] t = "GreaterThan" /\ ~n /\ ~e -> "greater_than"
          [] t = "GreaterThan" /\ ~n /\ e -> "greater_than_equals"
          [] t = "GreaterThan" /\ n /\ ~e -> "not_greater_than"
          [] t = "GreaterThan" /\ n /\ e -> "not_greater_than_equals"
          [] t = "Equals" /\ ~n -> "equals"
          [] t = "Equals" /\ n -> "not_equals"

ComparisonRule_expr(rule, column_name) ==
    LET c == col(column_name)
        comparison ==
            CASE rule.comparison_type = "LessThan" /\ rule.equals -> cmp("<=", c, rule.value)
              [] rule.comparison_type = "LessThan" /\ ~rule.equals -> cmp("<", c, rule.value)
              [] rule.comparison_type = "GreaterThan" /\ rule.equals -> cmp(">=", c, rule.value)
              [] rule.comparison_type = "GreaterThan" /\ ~rule.equals -> cmp(">", c, rule.value)
              [] rule.comparison_type = "Equals" -> cmp("=", c, rule.value)
    IN  IF rule.negated THEN not(comparison) ELSE comparison

LengthRule(min, max) == [kind |-> "LengthRule", min |-> min, max |-> max]

dfq_str_length(min, max) == LengthRule(min, max)

dfq_str_min_length(min) == LengthRule(Some(min), None)

dfq_str_max_length(max) == LengthRule(None, Some(max))

dfq_str_empty == LengthRule(None, Some(0))

LengthRule_name(rule) ==
    CASE rule.min.some /\ rule.max.some -> "length_range"
      [] rule.min.some /\ ~rule.max.some -> "min_length"
      [] ~rule.min.some /\ rule.max.some -> "max_length"
      [] ~rule.min.some /\ ~rule.max.some -> "length"

\* a match on (min, max) that takes a rule without bounds for one that every
\* string passes
LengthRule_exprUnbounded(rule, column_name) ==
    LET expr == char_length(col(column_name))
    IN  CASE rule.min.some /\ rule.max.some ->
                Ok(Between(expr, FALSE, lit(IntV(rule.min.v)), lit(IntV(rule.max.v))))
          [] rule.min.some /\ ~rule.max.some -> Ok(cmp(">=", expr, lit(IntV(rule.min.v))))
          [] ~rule.min.some /\ rule.max.some -> Ok(cmp("<", expr, lit(IntV(rule.max.v))))
          [] ~rule.min.some /\ ~rule.max.some -> Ok(cmp(">=", expr, lit(IntV(0))))

\* a match on (min, max) whose maximum alone is inclusive
LengthRule_exprInclusive(rule, column_name) ==
    LET expr == char_length(col(column_name))
    IN  CASE rule.min.some /\ rule.max.some ->
                Ok(Between(expr, FALSE, lit(IntV(rule.min.v)), lit(IntV(rule.max.v))))
          [] rule.min.some /\ ~rule.max.some -> Ok(cmp(">=", expr, lit(IntV(rule.min.v))))
          [] ~rule.min.some /\ rule.max.some -> Ok(cmp("<=", expr, lit(IntV(rule.max.v))))
          [] ~rule.min.some /\ ~rule.max.some ->
                Err("Configuration",
                    "Length rule must have either a minimum or maximum length")

\* the match on (min, max) in LengthRule::apply
LengthRule_expr(rule, column_name) ==
    LET expr == char_length(col(column_name))
    IN  CASE rule.min.some /\ rule.max.some ->
                Ok(Between(expr, FALSE, lit(IntV(rule.min.v)), lit(IntV(rule.max.v))))
          [] rule.min.some /\ ~rule.max.some -> Ok(cmp(">=", expr, lit(IntV(rule.min.v))))
          [] ~rule.min.some /\ rule.max.some -> Ok(cmp("<", expr, lit(IntV(rule.max.v))))
          [] ~rule.min.some /\ ~rule.max.some ->
                Err("Configuration",
                    "Length rule must have either a minimum or maximum length")

CustomRule(rule_name, expression) ==
    [kind |-> "CustomRule", rule_name |-> rule_name, expression |-> expression]

dfq_custom(rule_name, expression) == CustomRule(rule_name, expression)

CustomRule_name(rule) == "custom"

\* dynamic dispatch over Arc<dyn ColumnRule>
ColumnRule_name(rule) ==
    CASE rule.kind = "NullRule" -> NullRule_name(rule)
      [] rule.kind = "RangeRule" -> RangeRule_name(rule)
      [] rule.kind = "PatternRule" -> PatternRule_name(rule)
      [] rule.kind = "ComparisonRule" -> ComparisonRule_name(rule)
      [] rule.kind = "LengthRule" -> LengthRule_name(rule)
      [] rule.kind = "CustomRule" -> CustomRule_name(rule)

\* one naming function for every variant: "{column}_{name}"
ColumnRule_new_column_nameOfName(rule, column_name) ==
    column_name \o "_" \o ColumnRule_name(rule)

\* new_column_name of each variant: "{column}_{name}", but for LengthRule
\* "{column}_length" and for CustomRule "{column}_{rule_name}"
ColumnRule_new_column_name(rule, column_name) ==
    CASE rule.kind = "LengthRule" -> column_name \o "_length"
      [] rule.kind = "CustomRule" -> column_name \o "_" \o rule.rule_name
      [] OTHER -> column_name \o "_" \o ColumnRule_name(rule)

\* the expression each variant's apply builds, or its error
ColumnRule_expr(rule, column_name) ==
    CASE rule.kind = "NullRule" -> Ok(NullRule_expr(rule, column_name))
      [] rule.kind = "RangeRule" -> Ok(RangeRule_expr(rule, column_name))
      [] rule.kind = "PatternRule" -> Ok(PatternRule_expr(rule, column_name))
      [] rule.kind = "ComparisonRule" -> Ok(ComparisonRule_expr(rule, column_name))
      [] rule.kind = "LengthRule" -> LengthRule_expr(rule, column_name)
      [] rule.kind = "CustomRule" -> Ok(rule.expression)

\* apply of each variant: df.with_column(&self.new_column_name(column_name), expr)
ColumnRule_apply(rule, df, column_name) ==
    AndThen(ColumnRule_expr(rule, column_name),
            LAMBDA expr :
                WithColumn(df, ColumnRule_new_column_name(rule, column_name), expr))

\* ColumnRule::apply_with_ruleset, the trait's default
ColumnRule_apply_with_ruleset(rule, df, column_name) ==
    ColumnRule_apply(rule, df, column_name)

(***************************************************************************)
(* Aggregation (the engine's aggregate functions the table rules use)      *)
(***************************************************************************)
NonNull(vals) == SelectSeq(vals, LAMBDA v : ~IsNull(v))

\* exact arithmetic on numbers
RSub(a, b) == NumV(a.n * b.d - b.n * a.d, a.d * b.d)

RMul(a, b) == NumV(a.n * b.n, a.d * b.d)

\* a / b, b not zero
RDiv(a, b) == IF b.n < 0 THEN NumV(-(a.n * b.d), a.d * (-b.n))
              ELSE NumV(a.n * b.d, a.d * b.n)

RECURSIVE SumNum(_)
SumNum(vals) ==
    IF vals = <<>> THEN IntV(0)
    ELSE LET h == Head(vals)
             r == SumNum(Tail(vals))
         IN  NumV(h.n * r.d + r.n * h.d, h.d * r.d)

RECURSIVE MaxNum(_)
MaxNum(vals) ==
    IF Len(vals) = 1 THEN vals[1]
    ELSE LET r == MaxNum(Tail(vals))
         IN  IF Cmp3(">=", Head(vals), r).b THEN Head(vals) ELSE r

RECURSIVE MinNum(_)
MinNum(vals) ==
    IF Len(vals) = 1 THEN vals[1]
    ELSE LET r == MinNum(Tail(vals))
         IN  IF Cmp3("<=", Head(vals), r).b THEN Head(vals) ELSE r

\* one aggregate function over the values of its argument, nulls skipped
Mean(X) == RDiv(SumNum(X), IntV(Len(X)))

AggNonNull(fn, nn) ==
    CASE fn = "count" -> IntV(Len(nn))
      [] fn = "count_distinct" -> IntV(Cardinality({nn[k] : k \in 1..Len(nn)}))
      [] fn = "sum" -> IF nn = <<>> THEN Null ELSE SumNum(nn)
      [] fn = "avg" -> IF nn = <<>> THEN Null ELSE Mean(nn)
      [] fn = "max" -> IF nn = <<>> THEN Null ELSE MaxNum(nn)
      [] fn = "min" -> IF nn = <<>> THEN Null ELSE MinNum(nn)

AggValue(fn, vals) ==
    CASE fn = "first_value" -> IF vals = <<>> THEN Null ELSE vals[1]
      [] fn = "last_value" -> IF vals = <<>> THEN Null ELSE vals[Len(vals)]
      [] OTHER -> AggNonNull(fn, NonNull(vals))

AggType(fn) ==
    IF fn \in {"count", "count_all", "count_distinct", "regr_count"}
    THEN "Int64" ELSE "Float64"

ColumnValues(df, rows, name) ==
    [r \in 1..Len(rows) |-> rows[r][FieldIndex(df, name)]]

\* the rows of a two-argument aggregate: those where both arguments are
\* non-null
PairIdx(ys, xs) ==
    SelectSeq([k \in 1..Len(ys) |-> k], LAMBDA k : ~IsNull(ys[k]) /\ ~IsNull(xs[k]))

Pick(vals, idx) == [k \in 1..Len(idx) |-> vals[idx[k]]]

Products(X, Y) == [k \in 1..Len(X) |-> RMul(X[k], Y[k])]

\* sum(x*y) - sum(x)*sum(y)/n
Sxy(X, Y) ==
    RSub(SumNum(Products(X, Y)), RDiv(RMul(SumNum(X), SumNum(Y)), IntV(Len(X))))

\* the least-squares slope of Y on X, null when X does not vary
Slope(X, Y) == IF Sxy(X, X).n = 0 THEN Null ELSE RDiv(Sxy(X, Y), Sxy(X, X))

Intercept(X, Y) ==
    IF Sxy(X, X).n = 0 THEN Null
    ELSE RSub(Mean(Y), RMul(Slope(X, Y), Mean(X)))

R2(X, Y) ==
    IF Sxy(X, X).n = 0 THEN Null
    ELSE IF Sxy(Y, Y).n = 0 THEN IntV(1)
    ELSE RDiv(RMul(Sxy(X, Y), Sxy(X, Y)), RMul(Sxy(X, X), Sxy(Y, Y)))

AggPairs(fn, Y, X) ==
    IF fn = "regr_count" THEN IntV(Len(X))
    ELSE IF X = <<>> THEN Null
    ELSE CASE fn = "covar_pop" -> RDiv(Sxy(X, Y), IntV(Len(X)))
           [] fn = "covar_samp" ->
                 IF Len(X) < 2 THEN Null ELSE RDiv(Sxy(X, Y), IntV(Len(X) - 1))
           [] fn = "regr_avgx" -> Mean(X)
           [] fn = "regr_avgy" -> Mean(Y)
           [] fn = "regr_slope" -> Slope(X, Y)
           [] fn = "regr_intercept" -> Intercept(X, Y)
           [] fn = "regr_r2" -> R2(X, Y)
           [] fn = "regr_sxx" -> Sxy(X, X)
           [] fn = "regr_syy" -> Sxy(Y, Y)
           [] fn = "regr_sxy" -> Sxy(X, Y)

\* a two-argument aggregate fn(y, x)
AggValue2(fn, ys, xs) ==
    AggPairs(fn, Pick(ys, PairIdx(ys, xs)), Pick(xs, PairIdx(ys, xs)))

\* an aggregate expression: fn(arg) or fn(arg, arg2), named alias
Agg(fn, arg, alias) == [fn |-> fn, arg |-> arg, two |-> FALSE, alias |-> alias]

Agg2(fn, arg, arg2, alias) ==
    [fn |-> fn, arg |-> arg, arg2 |-> arg2, two |-> TRUE, alias |-> alias]

AggArgs(a) == IF a.fn = "count_all" THEN {}
              ELSE IF a.two THEN {a.arg, a.arg2} ELSE {a.arg}

AggOver(df, rows, a) ==
    IF a.fn = "count_all" THEN IntV(Len(rows))
    ELSE IF a.two THEN AggValue2(a.fn, ColumnValues(df, rows, a.arg),
                                 ColumnValues(df, rows, a.arg2))
    ELSE AggValue(a.fn, ColumnValues(df, rows, a.arg))

RECURSIVE Dedup(_)
\* the distinct elements of a sequence, in order of first appearance
Dedup(sq) ==
    IF sq = <<>> THEN <<>>
    ELSE LET r == Dedup(SubSeq(sq, 1, Len(sq) - 1))
             x == sq[Len(sq)]
         IN  IF \E k \in 1..Len(r) : r[k] = x THEN r ELSE Append(r, x)

\* an aggregate that takes every row for a group of its own
AggregateEachRow(df, group_by, aggr) ==
    IF \/ \E k \in 1..Len(group_by) : ~HasField(df, group_by[k])
       \/ \E k \in 1..Len(aggr) : \E a \in AggArgs(aggr[k]) : ~HasField(df, a)
    THEN Err("DataFusion", "no field")
    ELSE Ok([fields |->
                [k \in 1..Len(group_by) |-> df.fields[FieldIndex(df, group_by[k])]]
                \o [k \in 1..Len(aggr) |->
                       Field(aggr[k].alias, AggType(aggr[k].fn), TRUE)],
             rows |->
                [r \in 1..Len(df.rows) |->
                    [k \in 1..Len(group_by) |->
                        df.rows[r][FieldIndex(df, group_by[k])]]
                    \o [k \in 1..Len(aggr) |->
                           AggOver(df, <<df.rows[r]>>, aggr[k])]]])

\* DataFrame::aggregate(group_by, aggr): group_by is a sequence of column
\* names and aggr a sequence of [fn, arg, alias].  Without group_by the result
\* has exactly one row; with it, one row per distinct key (the engine fixes no
\* order among the groups: here they come in order of first appearance).
Aggregate(df, group_by, aggr) ==
    IF \/ \E k \in 1..Len(group_by) : ~HasField(df, group_by[k])
       \/ \E k \in 1..Len(aggr) : \E a \in AggArgs(aggr[k]) : ~HasField(df, a)
    THEN Err("DataFusion", "no field")
    ELSE LET key(row) == [k \in 1..Len(group_by) |->
                             row[FieldIndex(df, group_by[k])]]
             keys == IF group_by = <<>> THEN << <<>> >>
                     ELSE Dedup([r \in 1..Len(df.rows) |-> key(df.rows[r])])
             members(g) == SelectSeq(df.rows, LAMBDA row : key(row) = g)
         IN  Ok([fields |->
                    [k \in 1..Len(group_by) |->
                        df.fields[FieldIndex(df, group_by[k])]]
                    \o [k \in 1..Len(aggr) |->
                           Field(aggr[k].alias, AggType(aggr[k].fn), TRUE)],
                 rows |->
                    [g \in 1..Len(keys) |->
                        keys[g]
                        \o [k \in 1..Len(aggr) |->
                               AggOver(df, members(keys[g]), aggr[k])]]])

(***************************************************************************)
(* Table rules (rules/table.rs)                                            *)
(***************************************************************************)
NullCountRule(negated) == [kind |-> "NullCountRule", negated |-> negated]

dfq_null_count == NullCountRule(None)

dfq_not_null_count == NullCountRule(Some(TRUE))

\* CalculationType: a unit variant [kind], or a two-argument variant
\* [kind, x, y] whose x and y are Option<column name>.  The variants modelled
\* are the ones whose value is an exact fraction.
Calc(kind) == [kind |-> kind]

Calc2(kind, x, y) == [kind |-> kind, x |-> x, y |-> y]

TwoArgKinds ==
    {"CovarPop", "CovarSamp", "RegrAvgX", "RegrAvgY", "RegrCount", "RegrIntercept",
     "RegrR2", "RegrSlope", "RegrSxx", "RegrSxy", "RegrSyy"}

CalculationRule(calculation_type) ==
    [kind |-> "CalculationRule", calculation_type |-> calculation_type]

dfq_avg == CalculationRule(Calc("Avg"))

dfq_max == CalculationRule(Calc("Max"))

dfq_covar_pop(x, y) == CalculationRule(Calc2("CovarPop", x, y))

\* the engine function behind each CalculationType
CalcFn(kind) ==
    CASE kind = "Count" -> "count"
      [] kind = "CountDistinct" -> "count_distinct"
      [] kind = "Avg" -> "avg"
      [] kind = "Max" -> "max"
      [] kind = "Min" -> "min"
      [] kind = "Sum" -> "sum"
      [] kind = "FirstValue" -> "first_value"
      [] kind = "LastValue" -> "last_value"
      [] kind = "CovarPop" -> "covar_pop"
      [] kind = "CovarSamp" -> "covar_samp"
      [] kind = "RegrAvgX" -> "regr_avgx"
      [] kind = "RegrAvgY" -> "regr_avgy"
      [] kind = "RegrCount" -> "regr_count"
      [] kind = "RegrIntercept" -> "regr_intercept"
      [] kind = "RegrR2" -> "regr_r2"
      [] kind = "RegrSlope" -> "regr_slope"
      [] kind = "RegrSxx" -> "regr_sxx"
      [] kind = "RegrSxy" -> "regr_sxy"
      [] kind = "RegrSyy" -> "regr_syy"

\* calculation_type.to_string().to_ascii_lowercase()
CalcLowerName(kind) ==
    CASE kind = "Count" -> "count"
      [] kind = "CountDistinct" -> "countdistinct"
      [] kind = "Avg" -> "avg"
      [] kind = "Max" -> "max"
      [] kind = "Min" -> "min"
      [] kind = "Sum" -> "sum"
      [] kind = "FirstValue" -> "firstvalue"
      [] kind = "LastValue" -> "lastvalue"
      [] kind = "CovarPop" -> "covarpop"
      [] kind = "CovarSamp" -> "covarsamp"
      [] kind = "RegrAvgX" -> "regravgx"
      [] kind = "RegrAvgY" -> "regravgy"
      [] kind = "RegrCount" -> "regrcount"
      [] kind = "RegrIntercept" -> "regrintercept"
      [] kind = "RegrR2" -> "regrr2"
      [] kind = "RegrSlope" -> "regrslope"
      [] kind = "RegrSxx" -> "regrsxx"
      [] kind = "RegrSxy" -> "regrsxy"
      [] kind = "RegrSyy" -> "regrsyy"

\* name and new_column_name of each TableRule
TableRule_name(rule) ==
    CASE rule.kind = "NullCountRule" ->
            IF UnwrapOrDefault(rule.negated) THEN "not_null_count" ELSE "null_count"
      [] rule.kind = "CalculationRule" -> "calculation"
      [] rule.kind = "CustomAggregationRule" -> rule.rule_name

TableRule_new_column_name(rule, column_name) ==
    CASE rule.kind = "CalculationRule" ->
            column_name \o "_" \o CalcLowerName(rule.calculation_type.kind)
      [] OTHER -> column_name \o "_" \o TableRule_name(rule)

\* the aggregate of NullCountRule's subquery, and the select over its one row
NullCountRule_aggregate(rule, df, column_name) ==
    IF ~UnwrapOrDefault(rule.negated)
    THEN Aggregate(df, <<>>,
                   <<Agg("count_all", "*", "count_all"),
                     Agg("count", column_name,
                         TableRule_new_column_name(rule, column_name))>>)
    ELSE Aggregate(df, <<>>, <<Agg("count", column_name, "count_all")>>)

\* a projection that takes the first aggregate as it is
NullCountRule_selectFirst(rule, agg) == <<agg.rows[1][1]>>

NullCountRule_select(rule, agg) ==
    IF ~UnwrapOrDefault(rule.negated)
    THEN <<RSub(agg.rows[1][1], agg.rows[1][2])>>
    ELSE <<agg.rows[1][1]>>

NullCountRule_apply(rule, df, column_name) ==
    AndThen(NullCountRule_aggregate(rule, df, column_name),
            LAMBDA agg :
                Ok(WithScalarSubquery(df, TableRule_new_column_name(rule, column_name),
                                      "Int64", NullCountRule_select(rule, agg))))

\* a match on calculation_type that takes x whenever x is given, and fails
\* only when neither is
CalculationRule_calc_exprPrefersX(rule, column_name) ==
    LET ct == rule.calculation_type
        alias == TableRule_new_column_name(rule, column_name)
    IN  IF ct.kind \notin TwoArgKinds
        THEN Ok(Agg(CalcFn(ct.kind), column_name, alias))
        ELSE CASE ct.x.some -> Ok(Agg2(CalcFn(ct.kind), column_name, ct.x.v, alias))
               [] ~ct.x.some /\ ct.y.some ->
                    Ok(Agg2(CalcFn(ct.kind), ct.y.v, column_name, alias))
               [] OTHER ->
                    Err("Configuration", ct.kind \o " must have either x or y")

\* the match on calculation_type in CalculationRule::apply
CalculationRule_calc_expr(rule, column_name) ==
    LET ct == rule.calculation_type
        alias == TableRule_new_column_name(rule, column_name)
    IN  IF ct.kind \notin TwoArgKinds
        THEN Ok(Agg(CalcFn(ct.kind), column_name, alias))
        ELSE CASE ct.x.some /\ ~ct.y.some ->
                    Ok(Agg2(CalcFn(ct.kind), column_name, ct.x.v, alias))
               [] ~ct.x.some /\ ct.y.some ->
                    Ok(Agg2(CalcFn(ct.kind), ct.y.v, column_name, alias))
               [] OTHER ->
                    Err("Configuration", ct.kind \o " must have either x or y")

\* the one column of a subquery, as the sequence of its values
FirstColumn(sub) == [g \in 1..Len(sub.rows) |-> sub.rows[g][1]]

CalculationRule_apply(rule, df, column_name) ==
    AndThen(CalculationRule_calc_expr(rule, column_name),
            LAMBDA calc_expr :
    AndThen(Aggregate(df, <<>>, <<calc_expr>>),
            LAMBDA agg :
    AndThen(SelectColumns(agg, <<TableRule_new_column_name(rule, column_name)>>),
            LAMBDA subq_df :
                Ok(WithScalarSubquery(df, TableRule_new_column_name(rule, column_name),
                                      AggType(calc_expr.fn), FirstColumn(subq_df))))))

\* DataFrame::filter with planning: an unknown field is an error
FilterPlanned(df, e) ==
    IF ~Resolves(e, df) THEN Err("DataFusion", "no field") ELSE Ok(Filter(df, e))

\* DataFrame::window(exprs): each window expression is row_number() under an
\* alias, appended as one more column
RECURSIVE Window(_, _)
Window(df, aliases) ==
    IF aliases = <<>> THEN df
    ELSE Window(WithColumnValues(df, Head(aliases), "UInt64",
                                 [r \in 1..Len(df.rows) |-> IntV(r)]),
                Tail(aliases))

\* row a sorts before row b on the columns `names`, ascending, nulls last
RECURSIVE RowBefore(_, _, _, _)
RowBefore(df, names, a, b) ==
    IF names = <<>> THEN FALSE
    ELSE LET k == FieldIndex(df, Head(names))
         IN  IF a[k] = b[k] THEN RowBefore(df, Tail(names), a, b)
             ELSE IF IsNull(a[k]) THEN FALSE
             ELSE IF IsNull(b[k]) THEN TRUE
             ELSE Cmp3("<", a[k], b[k]).b

RECURSIVE SortRows(_, _, _)
\* a stable insertion sort
SortRows(df, names, rows) ==
    IF rows = <<>> THEN <<>>
    ELSE LET rest == SortRows(df, names, SubSeq(rows, 1, Len(rows) - 1))
             x == rows[Len(rows)]
             at == Cardinality({k \in 1..Len(rest) : ~RowBefore(df, names, x, rest[k])})
         IN  SubSeq(rest, 1, at) \o <<x>> \o SubSeq(rest, at + 1, Len(rest))

\* DataFrame::sort(order_by)
Sort(df, names) ==
    IF \E k \in 1..Len(names) : ~HasField(df, names[k])
    THEN Err("DataFusion", "no field")
    ELSE Ok([fields |-> df.fields, rows |-> SortRows(df, names, df.rows)])

CustomAggregationRule(aggregation, rule_name, group_by_exprs, aggregate_exprs, order_by, window_exprs, filter) ==
    [kind |-> "CustomAggregationRule", aggregation |-> aggregation,
     rule_name |-> rule_name, group_by_exprs |-> group_by_exprs,
     aggregate_exprs |-> aggregate_exprs, order_by |-> order_by,
     window_exprs |-> window_exprs, filter |-> filter]

\* CustomAggregationRuleBuilder::new(..).build() with no with_* call
dfq_custom_agg(aggregation, rule_name) ==
    CustomAggregationRule(aggregation, rule_name, None, None, None, None, None)

\* the stages of the subquery CustomAggregationRule::apply builds
CustomAggregationRule_filter(rule, df) ==
    IF rule.filter.some THEN FilterPlanned(df, rule.filter.v) ELSE Ok(df)

\* an aggregate stage that takes group-by without aggregate expressions for a
\* request for the distinct groups
CustomAggregationRule_aggregateGroupsAlone(rule, filtered) ==
    CASE rule.group_by_exprs.some /\ rule.aggregate_exprs.some ->
            Aggregate(filtered, rule.group_by_exprs.v, rule.aggregate_exprs.v)
      [] ~rule.group_by_exprs.some /\ rule.aggregate_exprs.some ->
            Aggregate(filtered, <<>>, rule.aggregate_exprs.v)
      [] rule.group_by_exprs.some /\ ~rule.aggregate_exprs.some ->
            Aggregate(filtered, rule.group_by_exprs.v, <<>>)
      [] OTHER -> Err("Configuration", "Group by requires aggregate expressions")

\* an aggregate stage that takes missing aggregate expressions for none
CustomAggregationRule_aggregateOfNone(rule, filtered) ==
    Aggregate(filtered,
              IF rule.group_by_exprs.some THEN rule.group_by_exprs.v ELSE <<>>,
              IF rule.aggregate_exprs.some THEN rule.aggregate_exprs.v ELSE <<>>)

CustomAggregationRule_aggregate(rule, filtered) ==
    CASE rule.group_by_exprs.some /\ rule.aggregate_exprs.some ->
            Aggregate(filtered, rule.group_by_exprs.v, rule.aggregate_exprs.v)
      [] ~rule.group_by_exprs.some /\ rule.aggregate_exprs.some ->
            Aggregate(filtered, <<>>, rule.aggregate_exprs.v)
      [] OTHER -> Err("Configuration", "Group by requires aggregate expressions")

CustomAggregationRule_window(rule, aggregated) ==
    IF rule.window_exprs.some THEN Window(aggregated, rule.window_exprs.v)
    ELSE aggregated

CustomAggregationRule_sort(rule, windowed) ==
    IF rule.order_by.some THEN Sort(windowed, rule.order_by.v) ELSE Ok(windowed)

\* filter, aggregate, window, sort, select
CustomAggregationRule_subquery(rule, df) ==
    AndThen(CustomAggregationRule_filter(rule, df),
            LAMBDA filtered :
    AndThen(CustomAggregationRule_aggregate(rule, filtered),
            LAMBDA aggregated :
    AndThen(CustomAggregationRule_sort(rule,
                                       CustomAggregationRule_window(rule, aggregated)),
            LAMBDA sorted : SelectColumns(sorted, <<rule.aggregation>>))))

CustomAggregationRule_apply(rule, df, column_name) ==
    AndThen(CustomAggregationRule_subquery(rule, df),
            LAMBDA subquery :
                Ok(WithScalarSubquery(df, TableRule_new_column_name(rule, column_name),
                                      subquery.fields[1].type, FirstColumn(subquery))))

\* dynamic dispatch over Arc<dyn TableRule>
TableRule_apply(rule, df, column_name) ==
    CASE rule.kind = "NullCountRule" -> NullCountRule_apply(rule, df, column_name)
      [] rule.kind = "CalculationRule" -> CalculationRule_apply(rule, df, column_name)
      [] rule.kind = "CustomAggregationRule" ->
            CustomAggregationRule_apply(rule, df, column_name)

\* TableRule::apply_with_ruleset, the trait's default
TableRule_apply_with_ruleset(rule, df, column_name) ==
    TableRule_apply(rule, df, column_name)

(***************************************************************************)
(* Schema rules (rules/schema.rs)                                          *)
(***************************************************************************)
ColumnExistsRule(column_name) ==
    [kind |-> "ColumnExistsRule", column_name |-> column_name]

dfq_column_exists(column_name) == ColumnExistsRule(column_name)

ColumnExistsRule_validate_schema(rule, schema) ==
    IF HasField(schema, rule.column_name) THEN Ok(TRUE)
    ELSE Err("ColumnNotFound", rule.column_name)

ColumnTypeRule(column_name, expected_type) ==
    [kind |-> "ColumnTypeRule", column_name |-> column_name,
     expected_type |-> expected_type]

dfq_column_type(column_name, expected_type) ==
    ColumnTypeRule(column_name, expected_type)

ColumnTypeRule_validate_schema(rule, schema) ==
    IF HasField(schema, rule.column_name)
    THEN IF schema.fields[FieldIndex(schema, rule.column_name)].type
               = rule.expected_type
         THEN Ok(TRUE)
         ELSE Err("TypeMismatch", rule.column_name)
    ELSE Err("ColumnNotFound", rule.column_name)

ColumnNullableRule(column_name, expected_nullable) ==
    [kind |-> "ColumnNullableRule", column_name |-> column_name,
     expected_nullable |-> expected_nullable]

dfq_column_not_nullable(column_name) == ColumnNullableRule(column_name, FALSE)

\* a nullability check that answers Ok(false) on a mismatch
ColumnNullableRule_validate_schemaAnswersFalse(rule, schema) ==
    IF HasField(schema, rule.column_name)
    THEN Ok(schema.fields[FieldIndex(schema, rule.column_name)].nullable
               = rule.expected_nullable)
    ELSE Err("ColumnNotFound", rule.column_name)

ColumnNullableRule_validate_schema(rule, schema) ==
    IF HasField(schema, rule.column_name)
    THEN IF schema.fields[FieldIndex(schema, rule.column_name)].nullable
               = rule.expected_nullable
         THEN Ok(TRUE)
         ELSE Err("ColumnNullabilityMismatch", rule.column_name)
    ELSE Err("ColumnNotFound", rule.column_name)

\* SchemaRule is an open trait: a rule written by the caller may answer
\* Ok(true) or Ok(false) as well as an error
CallerSchemaRule(name, verdict) ==
    [kind |-> "CallerSchemaRule", name |-> name, verdict |-> verdict]

SchemaRule_name(rule) ==
    CASE rule.kind = "ColumnExistsRule" -> "column_exists"
      [] rule.kind = "ColumnTypeRule" -> "column_type"
      [] rule.kind = "ColumnNullableRule" -> "column_nullable"
      [] rule.kind = "CallerSchemaRule" -> rule.name

\* dynamic dispatch over Arc<dyn SchemaRule>
SchemaRule_validate_schema(rule, schema) ==
    CASE rule.kind = "ColumnExistsRule" -> ColumnExistsRule_validate_schema(rule, schema)
      [] rule.kind = "ColumnTypeRule" -> ColumnTypeRule_validate_schema(rule, schema)
      [] rule.kind = "ColumnNullableRule" ->
            ColumnNullableRule_validate_schema(rule, schema)
      [] rule.kind = "CallerSchemaRule" -> Ok(rule.verdict)

(***************************************************************************)
(* The RuleSet (lib.rs): its three sequences, and one call of apply,       *)
(* partition or derived_statistics at a time, stepped rule by rule.        *)
(***************************************************************************)
VARIABLES
    schema_rules,   \* Vec<Arc<dyn SchemaRule>>
    column_rules,   \* Vec<(String, Arc<dyn ColumnRule>)>: [column_name, rule]
    table_rules,    \* Vec<(String, Arc<dyn TableRule>)>: [column_name, rule]
    calls,          \* history: the registration calls made, in order
    pc,             \* where the running call stands; "idle" between calls
    op,             \* the entry point called
    extra_columns,  \* derived_statistics' extra_columns
    df,             \* the dataset the call was given
    i,              \* the index of the loop the call is in
    result_df,      \* apply's running dataset
    prev_df,        \* history: the dataset the last rule applied was given
    check_columns,  \* apply's check_columns
    applied,        \* what apply returned, once it has
    ret,            \* what the entry point returned, once it has
    log,            \* history: the rules evaluated by the call, in order
    other           \* a second call on the same RuleSet, while this one runs

vars == <<schema_rules, column_rules, table_rules, calls, pc, op, extra_columns,
          df, i, result_df, prev_df, check_columns, applied, ret, log, other>>

ruleset == <<schema_rules, column_rules, table_rules>>

callvars ==
    <<op, extra_columns, df, i, result_df, prev_df, check_columns, applied, ret, log>>

NoDF == [fields |-> <<>>, rows |-> <<>>]

Pending == [ok |-> FALSE, kind |-> "pending", detail |-> ""]

Entry(column_name, rule) == [column_name |-> column_name, rule |-> rule]

\* RuleSet::new()
Init ==
    /\ schema_rules = <<>>
    /\ column_rules = <<>>
    /\ table_rules = <<>>
    /\ calls = <<>>
    /\ pc = "idle"
    /\ op = "none"
    /\ extra_columns = None
    /\ df = NoDF
    /\ i = 0
    /\ result_df = NoDF
    /\ prev_df = NoDF
    /\ check_columns = <<>>
    /\ applied = Pending
    /\ ret = Pending
    /\ log = <<>>
    /\ other = [pc |-> "idle", op |-> "none", extra_columns |-> None, df |-> NoDF,
                i |-> 0, result_df |-> NoDF, prev_df |-> NoDF, check_columns |-> <<>>,
                applied |-> Pending, ret |-> Pending, log |-> <<>>]

MaxCalls == 2

\* with_* take &mut self: no call borrows the RuleSet
CanRegister ==
    /\ pc = "idle"
    /\ other.pc = "idle"
    /\ Len(calls) < MaxCalls

with_schema_rule(rule) ==
    /\ CanRegister
    /\ schema_rules' = Append(schema_rules, rule)
    /\ calls' = Append(calls, "with_schema_rule")
    /\ UNCHANGED <<other, column_rules, table_rules, pc, callvars>>

\* a with_column_rule that keeps one rule per column: the entry of a column
\* that has one is replaced
with_column_rule_per_column(column_name, rule) ==
    /\ CanRegister
    /\ column_rules' =
            IF \E k \in 1..Len(column_rules) : column_rules[k].column_name = column_name
            THEN [k \in 1..Len(column_rules) |->
                    IF column_rules[k].column_name = column_name
                    THEN Entry(column_name, rule) ELSE column_rules[k]]
            ELSE Append(column_rules, Entry(column_name, rule))
    /\ calls' = Append(calls, "with_column_rule")
    /\ UNCHANGED <<other, schema_rules, table_rules, pc, callvars>>

with_column_rule(column_name, rule) ==
    /\ CanRegister
    /\ column_rules' = Append(column_rules, Entry(column_name, rule))
    /\ calls' = Append(calls, "with_column_rule")
    /\ UNCHANGED <<other, schema_rules, table_rules, pc, callvars>>

\* a with_table_rule that registers the check against the source column
with_table_rule_checks_source(column_name, table_rule, check) ==
    /\ CanRegister
    /\ column_rules' =
            IF check.some THEN Append(column_rules, Entry(column_name, check.v))
            ELSE column_rules
    /\ table_rules' = Append(table_rules, Entry(column_name, table_rule))
    /\ calls' = Append(calls, IF check.some THEN "with_table_rule(check)"
                              ELSE "with_table_rule")
    /\ UNCHANGED <<other, schema_rules, pc, callvars>>

with_table_rule(column_name, table_rule, check) ==
    /\ CanRegister
    /\ column_rules' =
            IF check.some
            THEN Append(column_rules,
                        Entry(TableRule_new_column_name(table_rule, column_name),
                              check.v))
            ELSE column_rules
    /\ table_rules' = Append(table_rules, Entry(column_name, table_rule))
    /\ calls' = Append(calls, IF check.some THEN "with_table_rule(check)"
                              ELSE "with_table_rule")
    /\ UNCHANGED <<other, schema_rules, pc, callvars>>

(***************************************************************************)
(* RuleSet::apply, step by step                                            *)
(***************************************************************************)
\* col(col_name).cast_to(Boolean, schema), mapped to a Column error; the
\* types are the ones arrow's can_cast_types takes to Boolean
CastColumn(col_name, schema) ==
    IF ~HasField(schema, col_name)
       \/ schema.fields[FieldIndex(schema, col_name)].type
             \notin {"Boolean", "Int32", "Int64", "UInt64", "Float64", "Utf8"}
    THEN Err("Column", "Error casting column to boolean")
    ELSE Ok(cast_boolean(col(col_name)))

RECURSIVE ReduceAnd(_, _, _)
\* .reduce(|acc, col| Ok(acc?.and(col?))) over the casts, left to right
ReduceAnd(acc, names, schema) ==
    IF names = <<>> THEN acc
    ELSE LET c == CastColumn(Head(names), schema)
         IN  IF ~acc.ok THEN acc
             ELSE IF ~c.ok THEN c
             ELSE ReduceAnd(Ok(and(acc.v, c.v)), Tail(names), schema)

\* a fold whose value without any check column is lit(false)
DqPassColEmptyFalse(names, schema) ==
    IF names = <<>> THEN Ok(lit(BoolV(FALSE)))
    ELSE ReduceAnd(CastColumn(Head(names), schema), Tail(names), schema)

\* dq_pass_col: the fold of the check columns, or lit(true) without any
DqPassCol(names, schema) ==
    IF names = <<>> THEN Ok(lit(BoolV(TRUE)))
    ELSE ReduceAnd(CastColumn(Head(names), schema), Tail(names), schema)

Logged(phase, k) == [phase |-> phase, k |-> k]

\* an entry point is called with a dataset
Call(o, extra, d) ==
    /\ pc = "idle"
    /\ pc' = "schema"
    /\ op' = o
    /\ extra_columns' = extra
    /\ df' = d
    /\ i' = 1
    /\ result_df' = NoDF
    /\ prev_df' = NoDF
    /\ check_columns' = <<>>
    /\ applied' = Pending
    /\ ret' = Pending
    /\ log' = <<>>
    /\ UNCHANGED <<other, ruleset, calls>>

\* a schema loop that reports every failure of a rule, its own error
\* included, as a Schema error naming the rule
SchemaStepWrapsErrors ==
    /\ pc = "schema"
    /\ i <= Len(schema_rules)
    /\ log' = Append(log, Logged("schema", i))
    /\ IF SchemaRule_validate_schema(schema_rules[i], df) # Ok(TRUE)
       THEN /\ applied' = Err("Schema", "Schema rule '"
                                        \o SchemaRule_name(schema_rules[i])
                                        \o "' failed")
            /\ pc' = "return"
            /\ i' = i
       ELSE /\ applied' = applied
            /\ pc' = pc
            /\ i' = i + 1
    /\ UNCHANGED <<other, ruleset, calls, op, extra_columns, df, result_df, prev_df,
                   check_columns, ret>>

\* a schema loop that notes a failure and goes on to the next rule
SchemaStepGoesOn ==
    /\ pc = "schema"
    /\ i <= Len(schema_rules)
    /\ log' = Append(log, Logged("schema", i))
    /\ applied' = IF SchemaRule_validate_schema(schema_rules[i], df) = Ok(TRUE)
                  THEN applied
                  ELSE Err("Schema", "Schema rule '"
                                     \o SchemaRule_name(schema_rules[i]) \o "' failed")
    /\ i' = i + 1
    /\ UNCHANGED <<other, ruleset, calls, pc, op, extra_columns, df, result_df, prev_df,
                   check_columns, ret>>

\* one turn of `for rule in &self.schema_rules`
SchemaStep ==
    /\ pc = "schema"
    /\ i <= Len(schema_rules)
    /\ LET rule == schema_rules[i]
           r == SchemaRule_validate_schema(rule, df)
       IN  /\ log' = Append(log, Logged("schema", i))
           /\ IF ~r.ok
              THEN /\ applied' = r
                   /\ pc' = "return"
                   /\ i' = i
              ELSE IF ~r.v
              THEN /\ applied' = Err("Schema", "Schema rule '" \o SchemaRule_name(rule)
                                                 \o "' failed")
                   /\ pc' = "return"
                   /\ i' = i
              ELSE /\ applied' = applied
                   /\ pc' = pc
                   /\ i' = i + 1
    /\ UNCHANGED <<other, ruleset, calls, op, extra_columns, df, result_df, prev_df,
                   check_columns, ret>>

\* let mut result_df = df.clone(), and apply_table_rules is entered
SchemaDone ==
    /\ pc = "schema"
    /\ i > Len(schema_rules)
    /\ result_df' = df
    /\ pc' = "table"
    /\ i' = 1
    /\ UNCHANGED <<other, ruleset, calls, op, extra_columns, df, prev_df, check_columns,
                   applied, ret, log>>

\* a loop of apply_table_rules that leaves out a rule that fails and goes on
TableStepSkipsFailure ==
    /\ pc = "table"
    /\ i <= Len(table_rules)
    /\ log' = Append(log, Logged("table", i))
    /\ prev_df' = result_df
    /\ result_df' =
          IF TableRule_apply_with_ruleset(table_rules[i].rule, result_df,
                                          table_rules[i].column_name).ok
          THEN TableRule_apply_with_ruleset(table_rules[i].rule, result_df,
                                            table_rules[i].column_name).v
          ELSE result_df
    /\ i' = i + 1
    /\ UNCHANGED <<other, ruleset, calls, pc, op, extra_columns, df, check_columns, applied, ret>>

\* one turn of the loop of apply_table_rules
\* a loop that gives every table rule the dataset apply was given
TableStepOnInput ==
    /\ pc = "table"
    /\ i <= Len(table_rules)
    /\ LET e == table_rules[i]
           r == TableRule_apply_with_ruleset(e.rule, df, e.column_name)
       IN  /\ log' = Append(log, Logged("table", i))
           /\ prev_df' = df
           /\ IF ~r.ok
              THEN /\ applied' = r
                   /\ pc' = "return"
                   /\ UNCHANGED <<result_df, i>>
              ELSE /\ result_df' = r.v
                   /\ i' = i + 1
                   /\ UNCHANGED <<applied, pc>>
    /\ UNCHANGED <<other, ruleset, calls, op, extra_columns, df, check_columns, ret>>

TableStep ==
    /\ pc = "table"
    /\ i <= Len(table_rules)
    /\ LET e == table_rules[i]
           r == TableRule_apply_with_ruleset(e.rule, result_df, e.column_name)
       IN  /\ log' = Append(log, Logged("table", i))
           /\ prev_df' = result_df
           /\ IF ~r.ok
              THEN /\ applied' = r
                   /\ pc' = "return"
                   /\ UNCHANGED <<result_df, i>>
              ELSE /\ result_df' = r.v
                   /\ i' = i + 1
                   /\ UNCHANGED <<applied, pc>>
    /\ UNCHANGED <<other, ruleset, calls, op, extra_columns, df, check_columns, ret>>

\* apply_table_rules returns Ok(result_df)
TableDone ==
    /\ pc = "table"
    /\ i > Len(table_rules)
    /\ pc' = "column"
    /\ i' = 1
    /\ UNCHANGED <<other, ruleset, calls, op, extra_columns, df, result_df, prev_df,
                   check_columns, applied, ret, log>>

\* one turn of `for (column_name, rule) in &self.column_rules`
ColumnStep ==
    /\ pc = "column"
    /\ i <= Len(column_rules)
    /\ LET e == column_rules[i]
           r == ColumnRule_apply_with_ruleset(e.rule, result_df, e.column_name)
       IN  /\ log' = Append(log, Logged("column", i))
           /\ prev_df' = result_df
           /\ IF ~r.ok
              THEN /\ applied' = r
                   /\ pc' = "return"
                   /\ UNCHANGED <<result_df, i, check_columns>>
              ELSE /\ result_df' = r.v
                   /\ check_columns' =
                          Append(check_columns,
                                 ColumnRule_new_column_name(e.rule, e.column_name))
                   /\ i' = i + 1
                   /\ UNCHANGED <<applied, pc>>
    /\ UNCHANGED <<other, ruleset, calls, op, extra_columns, df, ret>>

\* the fold into dq_pass_col, with_column("dfq_pass", ..) and Ok(result_df)
Verdict ==
    /\ pc = "column"
    /\ i > Len(column_rules)
    /\ LET dq_pass_col == DqPassCol(check_columns, result_df)
           r == WithColumn(result_df, "dfq_pass", dq_pass_col.v)
       IN  /\ log' = Append(log, Logged("verdict", 0))
           /\ IF ~dq_pass_col.ok
              THEN applied' = dq_pass_col /\ UNCHANGED result_df
              ELSE IF ~r.ok
              THEN applied' = r /\ UNCHANGED result_df
              ELSE applied' = r /\ result_df' = r.v
    /\ pc' = "return"
    /\ UNCHANGED <<other, ruleset, calls, op, extra_columns, df, i, prev_df, check_columns,
                   ret>>

(***************************************************************************)
(* The entry points: apply, partition, derived_statistics                  *)
(***************************************************************************)
\* DataFrame::select(exprs) of column references: the projection needs
\* unique names
Select(d, names) ==
    IF \E a, b \in 1..Len(names) : a # b /\ names[a] = names[b]
    THEN Err("DataFusion", "duplicate expression name")
    ELSE SelectColumns(d, names)

pass_expr == cmp("=", col("dfq_pass"), lit(BoolV(TRUE)))

\* a partition whose pass side keeps every column of dq_df
PartitionUnprojected(dq_df, input) ==
    Ok([pass_df |-> Filter(dq_df, pass_expr), fail_df |-> Filter(dq_df, not(pass_expr))])

\* the body of partition after `self.apply(df).await?.cache().await?`
Partition(dq_df, input) ==
    LET pass_df == SelectColumns(Filter(dq_df, pass_expr), Names(input))
        fail_df == Filter(dq_df, not(pass_expr))
    IN  IF ~pass_df.ok THEN pass_df
        ELSE Ok([pass_df |-> pass_df.v, fail_df |-> fail_df])

\* a derived_statistics that returns the whole output of apply
DerivedStatisticsUnprojected(dq_df, extra) == Ok(dq_df)

\* the body of derived_statistics after `self.apply(df).await?`
DerivedStatistics(dq_df, extra) ==
    LET table_rules_names ==
            (IF extra.some THEN extra.v ELSE <<>>)
            \o [k \in 1..Len(table_rules) |->
                   TableRule_new_column_name(table_rules[k].rule,
                                             table_rules[k].column_name)]
    IN  Select(dq_df, table_rules_names)

\* apply has returned to its caller
ApplyReturn ==
    /\ pc = "return"
    /\ op = "apply"
    /\ ret' = applied
    /\ pc' = "done"
    /\ UNCHANGED <<other, ruleset, calls, op, extra_columns, df, i, result_df, prev_df,
                   check_columns, applied, log>>

PartitionReturn ==
    /\ pc = "return"
    /\ op = "partition"
    /\ ret' = IF ~applied.ok THEN applied ELSE Partition(applied.v, df)
    /\ pc' = "done"
    /\ UNCHANGED <<other, ruleset, calls, op, extra_columns, df, i, result_df, prev_df,
                   check_columns, applied, log>>

DerivedStatisticsReturn ==
    /\ pc = "return"
    /\ op = "derived_statistics"
    /\ ret' = IF ~applied.ok THEN applied
              ELSE DerivedStatistics(applied.v, extra_columns)
    /\ pc' = "done"
    /\ UNCHANGED <<other, ruleset, calls, op, extra_columns, df, i, result_df, prev_df,
                   check_columns, applied, log>>

\* the caller drops the result; the RuleSet is ready for the next call
Finish ==
    /\ pc = "done"
    /\ pc' = "idle"
    /\ op' = "none"
    /\ extra_columns' = None
    /\ df' = NoDF
    /\ i' = 0
    /\ result_df' = NoDF
    /\ prev_df' = NoDF
    /\ check_columns' = <<>>
    /\ applied' = Pending
    /\ ret' = Pending
    /\ log' = <<>>
    /\ UNCHANGED <<other, ruleset, calls>>

(***************************************************************************)
(* The datasets and the rules the calls are drawn from                     *)
(***************************************************************************)
\* id, name and score as in create_test_df: a null name, a null score, a
\* score below the range
People ==
    [fields |-> <<Field("id", "Int32", FALSE), Field("name", "Utf8", TRUE),
                  Field("score", "Float64", TRUE)>>,
     rows |-> << <<IntV(1), StrV(<<"A", "b">>), IntV(85)>>,
                 <<IntV(2), Null, IntV(90)>>,
                 <<IntV(3), StrV(<<"a", "b", "c">>), Null>>,
                 <<IntV(4), StrV(<<"B">>), IntV(70)>> >>]

\* no score, a name that cannot be null, a column that already has the name a
\* length rule on name derives, and a date (in days), which no cast takes to
\* Boolean
Labels ==
    [fields |-> <<Field("name", "Utf8", FALSE), Field("name_length", "Int32", TRUE),
                  Field("since", "Date32", TRUE)>>,
     rows |-> << <<StrV(<<"A">>), IntV(1), IntV(19000)>>,
                 <<StrV(<<"a", "b", "c">>), IntV(0), IntV(19001)>> >>]

Datasets == {People, Labels}

SchemaRules ==
    {dfq_column_exists("score"), dfq_column_type("name", "Int32"),
     dfq_column_not_nullable("name"), CallerSchemaRule("caller_rule", FALSE)}

ColumnRules ==
    {Entry("name", dfq_not_null),
     Entry("score", dfq_in_range(80, 100)),
     Entry("name", dfq_like(<<"A", "%">>)),
     Entry("score", dfq_not_lt(lit(IntV(80)))),
     Entry("name", dfq_str_min_length(2)),
     Entry("name", dfq_str_max_length(3)),
     Entry("name", dfq_str_length(None, None)),
     Entry("score", dfq_custom("gt_80", cmp(">", col("score"), lit(IntV(80))))),
     Entry("since", dfq_custom("raw", col("since")))}

max_score_by_name ==
    CustomAggregationRule("max_score", "max_score_by_name", Some(<<"name">>),
                          Some(<<Agg("max", "score", "max_score")>>),
                          None, None, None)

max_score_non_null ==
    CustomAggregationRule("max_score_non_null", "max_score_non_null", None,
                          Some(<<Agg("max", "score", "max_score_non_null")>>),
                          None, None, Some(is_not_null(col("name"))))

TableRuleChoices ==
    {[column_name |-> "name", rule |-> dfq_null_count, check |-> None],
     [column_name |-> "name", rule |-> dfq_null_count,
      check |-> Some(dfq_in_range(0, 0))],
     [column_name |-> "score", rule |-> dfq_avg, check |-> None],
     [column_name |-> "score", rule |-> dfq_covar_pop(Some("id"), Some("id")),
      check |-> None],
     [column_name |-> "score", rule |-> max_score_by_name, check |-> None],
     [column_name |-> "score", rule |-> max_score_non_null, check |-> None],
     [column_name |-> "score", rule |-> dfq_custom_agg("max_score", "max_score"),
      check |-> None],
     [column_name |-> "name_null_count", rule |-> dfq_max, check |-> None],
     [column_name |-> "name_null_count", rule |-> max_score_non_null, check |-> None]}

ExtraColumns == {None, Some(<<"name">>)}

Next ==
    \/ \E rule \in SchemaRules : with_schema_rule(rule)
    \/ \E e \in ColumnRules : with_column_rule(e.column_name, e.rule)
    \/ \E t \in TableRuleChoices : with_table_rule(t.column_name, t.rule, t.check)
    \/ \E d \in Datasets : Call("apply", None, d)
    \/ \E d \in Datasets : Call("partition", None, d)
    \/ \E d \in Datasets, extra \in ExtraColumns : Call("derived_statistics", extra, d)
    \/ SchemaStep
    \/ SchemaDone
    \/ TableStep
    \/ TableDone
    \/ ColumnStep
    \/ Verdict
    \/ ApplyReturn
    \/ PartitionReturn
    \/ DerivedStatisticsReturn
    \/ Finish

Spec == Init /\ [][Next]_vars

(***************************************************************************)
(* Two calls on one RuleSet.  apply, partition and derived_statistics are  *)
(* async and take &self, so a second call may be made while the first is   *)
(* suspended; the locals of the suspended call are kept in other, and      *)
(* Switch resumes it and suspends the running one.                         *)
(***************************************************************************)
\* two calls that have check_columns in common, as a field of the RuleSet
\* would be
SwitchSharesCheckColumns ==
    /\ pc # "idle" \/ other.pc # "idle"
    /\ other' = [pc |-> pc, op |-> op, extra_columns |-> extra_columns, df |-> df,
                 i |-> i, result_df |-> result_df, prev_df |-> prev_df,
                 check_columns |-> <<>>, applied |-> applied, ret |-> ret,
                 log |-> log]
    /\ pc' = other.pc
    /\ op' = other.op
    /\ extra_columns' = other.extra_columns
    /\ df' = other.df
    /\ i' = other.i
    /\ result_df' = other.result_df
    /\ prev_df' = other.prev_df
    /\ applied' = other.applied
    /\ ret' = other.ret
    /\ log' = other.log
    /\ UNCHANGED <<ruleset, calls, check_columns>>

Switch ==
    /\ pc # "idle" \/ other.pc # "idle"
    /\ other' = [pc |-> pc, op |-> op, extra_columns |-> extra_columns, df |-> df,
                 i |-> i, result_df |-> result_df, prev_df |-> prev_df,
                 check_columns |-> check_columns, applied |-> applied, ret |-> ret,
                 log |-> log]
    /\ pc' = other.pc
    /\ op' = other.op
    /\ extra_columns' = other.extra_columns
    /\ df' = other.df
    /\ i' = other.i
    /\ result_df' = other.result_df
    /\ prev_df' = other.prev_df
    /\ check_columns' = other.check_columns
    /\ applied' = other.applied
    /\ ret' = other.ret
    /\ log' = other.log
    /\ UNCHANGED <<ruleset, calls>>

ConcNext ==
    \/ with_schema_rule(dfq_column_exists("score"))
    \/ \E e \in {Entry("name", dfq_not_null), Entry("score", dfq_in_range(80, 100))} :
            with_column_rule(e.column_name, e.rule)
    \/ with_table_rule("name", dfq_null_count, Some(dfq_in_range(0, 0)))
    \/ \E d \in Datasets : Call("apply", None, d)
    \/ \E d \in Datasets : Call("partition", None, d)
    \/ \E d \in Datasets, extra \in ExtraColumns : Call("derived_statistics", extra, d)
    \/ SchemaStep
    \/ SchemaDone
    \/ TableStep
    \/ TableDone
    \/ ColumnStep
    \/ Verdict
    \/ ApplyReturn
    \/ PartitionReturn
    \/ DerivedStatisticsReturn
    \/ Finish
    \/ Switch

ConcSpec == Init /\ [][ConcNext]_vars

(***************************************************************************)
(* A rule applied on its own, rule.apply(df, column_name), as the tests of *)
(* rules/column.rs and rules/table.rs do: the rule and its target are      *)
(* logged, and ret is what apply returned.                                 *)
(***************************************************************************)
ApplyColumnRule(rule, d, column_name) ==
    /\ pc = "idle"
    /\ pc' = "done"
    /\ op' = "ColumnRule::apply"
    /\ df' = d
    /\ log' = <<Logged("rule", Entry(column_name, rule))>>
    /\ applied' = ColumnRule_apply(rule, d, column_name)
    /\ ret' = ColumnRule_apply(rule, d, column_name)
    /\ UNCHANGED <<other, ruleset, calls, extra_columns, i, result_df, prev_df, check_columns>>

\* rule.validate_schema(&schema), on the schema of d
ApplySchemaRule(rule, d) ==
    /\ pc = "idle"
    /\ pc' = "done"
    /\ op' = "SchemaRule::validate_schema"
    /\ df' = d
    /\ log' = <<Logged("rule", Entry(rule.column_name, rule))>>
    /\ applied' = SchemaRule_validate_schema(rule, d)
    /\ ret' = SchemaRule_validate_schema(rule, d)
    /\ UNCHANGED <<other, ruleset, calls, extra_columns, i, result_df, prev_df, check_columns>>

ApplyTableRule(rule, d, column_name) ==
    /\ pc = "idle"
    /\ pc' = "done"
    /\ op' = "TableRule::apply"
    /\ df' = d
    /\ log' = <<Logged("rule", Entry(column_name, rule))>>
    /\ applied' = TableRule_apply(rule, d, column_name)
    /\ ret' = TableRule_apply(rule, d, column_name)
    /\ UNCHANGED <<other, ruleset, calls, extra_columns, i, result_df, prev_df, check_columns>>

\* the dataset of test_string_length_rules: an empty string, strings of one,
\* three and six characters, and a null
Texts ==
    [fields |-> <<Field("id", "Int32", FALSE), Field("text", "Utf8", TRUE)>>,
     rows |-> << <<IntV(1), StrV(<<>>)>>,
                 <<IntV(2), StrV(<<"a">>)>>,
                 <<IntV(3), StrV(<<"a", "b", "c">>)>>,
                 <<IntV(4), StrV(<<"a", "b", "c", "d", "e", "f">>)>>,
                 <<IntV(5), Null>> >>]

\* the largest bound a length rule is given
MaxLength == 3

RuleNext ==
    \/ \E min, max \in {None} \cup {Some(n) : n \in 0..MaxLength},
          d \in {Texts, People}, column_name \in {"text", "name"} :
            ApplyColumnRule(dfq_str_length(min, max), d, column_name)
    \/ \E e \in ColumnRules, d \in Datasets :
            ApplyColumnRule(e.rule, d, e.column_name)
    \/ \E negated, case_sensitive \in {None, Some(FALSE), Some(TRUE)},
          d \in {People, Texts} :
            \/ ApplyColumnRule(NullRule(negated), d, "name")
            \/ ApplyColumnRule(RangeRule(80, 100, negated), d, "score")
            \/ ApplyColumnRule(PatternRule(<<"a", "%">>, negated, case_sensitive),
                               d, "name")
    \/ \E comparison_type \in {"LessThan", "GreaterThan", "Equals"},
          negated, equals \in BOOLEAN, d \in {People, Texts} :
            ApplyColumnRule(ComparisonRule(lit(IntV(85)), negated, equals,
                                           comparison_type),
                            d, "score")
    \/ \E column_name \in {"name", "score", "since"},
          expected_type \in {"Utf8", "Float64"}, expected_nullable \in BOOLEAN,
          d \in Datasets :
            \/ ApplySchemaRule(ColumnExistsRule(column_name), d)
            \/ ApplySchemaRule(ColumnTypeRule(column_name, expected_type), d)
            \/ ApplySchemaRule(ColumnNullableRule(column_name, expected_nullable), d)
    \/ \E negated \in {None, Some(FALSE), Some(TRUE)},
          d \in {People, Texts, [People EXCEPT !.rows = <<>>]},
          column_name \in {"name", "score", "text"} :
            ApplyTableRule(NullCountRule(negated), d, column_name)
    \/ \E kind \in TwoArgKinds, x, y \in {None, Some("id")}, d \in Datasets :
            ApplyTableRule(CalculationRule(Calc2(kind, x, y)), d, "score")
    \/ \E group_by \in {None, Some(<<"name">>)},
          aggregate \in {None, Some(<<Agg("max", "score", "max_score")>>)},
          filter \in {None, Some(is_not_null(col("name"))), Some(is_not_null(col("text")))},
          order_by \in {None, Some(<<"max_score">>)},
          window_exprs \in {None, Some(<<"row_number">>)},
          d \in {People, Texts} :
            ApplyTableRule(CustomAggregationRule("max_score", "max_score", group_by,
                                                 aggregate, order_by, window_exprs,
                                                 filter),
                           d, "score")
    \/ Finish

RuleSpec == Init /\ [][RuleNext]_vars

(***************************************************************************)
(* Properties.  Once a call has returned (pc = "done"), df is the dataset  *)
(* it was given, applied is what apply returned and ret what the entry     *)
(* point returned.                                                         *)
(***************************************************************************)
Succeeded(o) == pc = "done" /\ op = o /\ ret.ok

InSeq(x, sq) == \E k \in 1..Len(sq) : sq[k] = x

SeqRange(sq) == {sq[k] : k \in 1..Len(sq)}

\* the values a row of apply's output has in the columns of the input
InputPart(row) == SubSeq(row, 1, Len(df.fields))

\* the value a row of d has in the derived column of the column-rule entry e
DerivedValue(d, row, e) ==
    row[FieldIndex(d, ColumnRule_new_column_name(e.rule, e.column_name))]

TableRuleNames ==
    [k \in 1..Len(table_rules) |->
        TableRule_new_column_name(table_rules[k].rule, table_rules[k].column_name)]

ColumnRuleNames ==
    [k \in 1..Len(column_rules) |->
        ColumnRule_new_column_name(column_rules[k].rule, column_rules[k].column_name)]

\* C1: whenever partition succeeds, the rows of the pass output and the rows
\* of the fail output together are as many as the rows of the dataset.
C1_PassPlusFailIsAll ==
    Succeeded("partition") =>
        Len(ret.v.pass_df.rows) + Len(ret.v.fail_df.rows) = Len(df.rows)

\* C1: a partition without any table rule, so that apply keeps the rows of
\* the dataset one for one, that returns fewer rows than it was given: a row
\* whose dfq_pass is null is on neither side.
C1_RowLost ==
    /\ Succeeded("partition")
    /\ table_rules = <<>>
    /\ Len(applied.v.rows) = Len(df.rows)
    /\ \E r \in 1..Len(applied.v.rows) :
          IsNull(applied.v.rows[r][FieldIndex(applied.v, "dfq_pass")])
    /\ Len(ret.v.pass_df.rows) + Len(ret.v.fail_df.rows) < Len(df.rows)

NullingKinds == {"RangeRule", "ComparisonRule", "PatternRule"}

\* row r of apply's output has a null in the derived column of some range,
\* comparison or pattern rule
HasNullVerdict(r) ==
    \E k \in 1..Len(column_rules) :
        /\ column_rules[k].rule.kind \in NullingKinds
        /\ IsNull(DerivedValue(applied.v, applied.v.rows[r], column_rules[k]))

\* C2: whenever partition succeeds, a row on which a range, comparison or
\* pattern rule yields null is not in the pass output and is in the fail
\* output.
C2_NullVerdictRowFails ==
    Succeeded("partition") =>
        \A r \in 1..Len(applied.v.rows) :
            HasNullVerdict(r) =>
                /\ ~InSeq(InputPart(applied.v.rows[r]), ret.v.pass_df.rows)
                /\ InSeq(applied.v.rows[r], ret.v.fail_df.rows)

\* C2: a row with a null verdict that partition puts on neither side
C2_NullVerdictRowOnNeitherSide ==
    /\ Succeeded("partition")
    /\ table_rules = <<>>
    /\ \E r \in 1..Len(applied.v.rows) :
          /\ HasNullVerdict(r)
          /\ ~InSeq(InputPart(applied.v.rows[r]), ret.v.pass_df.rows)
          /\ ~InSeq(applied.v.rows[r], ret.v.fail_df.rows)

\* C3: whenever partition succeeds, the pass output has exactly the column
\* names of the dataset, in its order, and the fail output has every column
\* of the dataset, the derived column of every table rule and of every column
\* rule, and dfq_pass.
C3_PartitionColumns ==
    Succeeded("partition") =>
        /\ Names(ret.v.pass_df) = Names(df)
        /\ \A n \in SeqRange(Names(df)) \cup SeqRange(TableRuleNames)
                     \cup SeqRange(ColumnRuleNames) \cup {"dfq_pass"} :
              HasField(ret.v.fail_df, n)

\* C3: a partition under a table rule and column rules, with rows on both
\* sides and derived columns the dataset does not have
C3_BothSidesWithDerivedColumns ==
    /\ Succeeded("partition")
    /\ table_rules # <<>>
    /\ column_rules # <<>>
    /\ ret.v.pass_df.rows # <<>>
    /\ ret.v.fail_df.rows # <<>>
    /\ Len(ret.v.fail_df.fields) > Len(ret.v.pass_df.fields)

Returned(o) == pc = "done" /\ op = o

SchemaRulesPass ==
    \A k \in 1..Len(schema_rules) :
        SchemaRule_validate_schema(schema_rules[k], df) = Ok(TRUE)

\* the call ended in a table rule that returned an error
TableRuleFailed ==
    /\ ~applied.ok
    /\ log # <<>>
    /\ log[Len(log)].phase = "table"

AllRowsPass(d) ==
    /\ HasField(d, "dfq_pass")
    /\ \A r \in 1..Len(d.rows) : d.rows[r][FieldIndex(d, "dfq_pass")] = BoolV(TRUE)

\* C4, as stated: with no entry in column_rules and schema rules that all
\* pass, apply succeeds and dfq_pass is true on every row.
C4_NoColumnRulesAlwaysPass ==
    (Returned("apply") /\ column_rules = <<>> /\ SchemaRulesPass) =>
        (ret.ok /\ AllRowsPass(ret.v))

\* C4, amended: with no entry in column_rules, schema rules that all pass and
\* table rules none of which returns an error, apply succeeds and dfq_pass is
\* true on every row.
C4_NoColumnRulesPassUnlessTableRuleFails ==
    (Returned("apply") /\ column_rules = <<>> /\ SchemaRulesPass /\ ~TableRuleFailed) =>
        (ret.ok /\ AllRowsPass(ret.v))

\* C4: an apply under a passing schema rule and a table rule, without any
\* column rule, that returns a dataset with rows
C4_PassedWithoutColumnRules ==
    /\ Succeeded("apply")
    /\ column_rules = <<>>
    /\ schema_rules # <<>>
    /\ table_rules # <<>>
    /\ ret.v.rows # <<>>

\* the boolean casts of the derived columns of the column_rules entries, on
\* one row of apply's output
CastVerdicts(row) ==
    {CastBoolean(DerivedValue(ret.v, row, column_rules[k])) :
        k \in 1..Len(column_rules)}

\* C5: in the result of apply, dfq_pass on each row is false if the cast of
\* the derived column of some column_rules entry is false, else null if one
\* is null, else true; no other column takes part.
C5_VerdictIsThreeValuedAnd ==
    Succeeded("apply") =>
        \A r \in 1..Len(ret.v.rows) :
            ret.v.rows[r][FieldIndex(ret.v, "dfq_pass")] =
                IF BoolV(FALSE) \in CastVerdicts(ret.v.rows[r]) THEN BoolV(FALSE)
                ELSE IF Null \in CastVerdicts(ret.v.rows[r]) THEN Null
                ELSE BoolV(TRUE)

\* C5: an apply under two column rules whose result has a row with each of
\* the three verdicts, the null one from a true and a null derived value
C5_TrueFalseAndNullVerdicts ==
    /\ Succeeded("apply")
    /\ Len(column_rules) = 2
    /\ \A v \in {BoolV(TRUE), BoolV(FALSE), Null} :
          \E r \in 1..Len(ret.v.rows) :
              ret.v.rows[r][FieldIndex(ret.v, "dfq_pass")] = v
    /\ \E r \in 1..Len(ret.v.rows) :
          CastVerdicts(ret.v.rows[r]) = {BoolV(TRUE), Null}

\* schema rule k is the first, in registration order, that the dataset of
\* the call does not pass
FirstFailing(k) ==
    /\ k \in 1..Len(schema_rules)
    /\ SchemaRule_validate_schema(schema_rules[k], df) # Ok(TRUE)
    /\ \A j \in 1..(k - 1) :
          SchemaRule_validate_schema(schema_rules[j], df) = Ok(TRUE)

SchemaError(rule) ==
    Err("Schema", "Schema rule '" \o SchemaRule_name(rule) \o "' failed")

BuiltInSchemaRules == {"ColumnExistsRule", "ColumnTypeRule", "ColumnNullableRule"}

\* C6, as stated: when the dataset fails a schema rule, the built-in ones
\* included, apply returns a Schema error naming the first failing rule.
C6_SchemaFailureIsSchemaError ==
    Returned("apply") =>
        \A k \in 1..Len(schema_rules) :
            FirstFailing(k) => ret = SchemaError(schema_rules[k])

\* C6, amended: when the dataset fails a schema rule, apply returns the error
\* of the first failing rule in registration order: for a built-in rule the
\* rule's own ColumnNotFound, TypeMismatch or ColumnNullabilityMismatch error
\* naming the column, and a Schema error naming the rule only for a rule that
\* answers false.
C6_SchemaFailureError ==
    Returned("apply") =>
        \A k \in 1..Len(schema_rules) :
            FirstFailing(k) =>
                IF schema_rules[k].kind \in BuiltInSchemaRules
                THEN /\ ~ret.ok
                     /\ ret.kind \in {"ColumnNotFound", "TypeMismatch",
                                      "ColumnNullabilityMismatch"}
                     /\ ret.detail = schema_rules[k].column_name
                ELSE ret = SchemaError(schema_rules[k])

\* C6: an apply whose second schema rule is the first to fail and is a
\* built-in one
C6_BuiltInRuleFailedSecond ==
    /\ Returned("apply")
    /\ FirstFailing(2)
    /\ schema_rules[2].kind \in BuiltInSchemaRules
    /\ ~ret.ok

SchemaPassed(k) == SchemaRule_validate_schema(schema_rules[k], df) = Ok(TRUE)

\* C7: in every call the schema rules are evaluated first, in registration
\* order; once one fails nothing more is evaluated or applied; and a table or
\* column rule is applied only after every schema rule was evaluated and
\* passed.
C7_SchemaRulesFirstAndFailFast ==
    \A p \in 1..Len(log) :
        /\ log[p].phase = "schema" =>
              /\ log[p].k = p
              /\ ~SchemaPassed(p) => p = Len(log)
        /\ log[p].phase # "schema" =>
              /\ p > Len(schema_rules)
              /\ \A k \in 1..Len(schema_rules) :
                    log[k] = Logged("schema", k) /\ SchemaPassed(k)

\* C7: a call under a table rule and a column rule that ended at its first
\* schema rule, which failed
C7_StoppedAtFailedSchemaRule ==
    /\ pc = "done"
    /\ ~ret.ok
    /\ table_rules # <<>>
    /\ column_rules # <<>>
    /\ log = <<Logged("schema", 1)>>
    /\ ~SchemaPassed(1)

\* the steps of a successful apply, in order
StepsInOrder ==
    [k \in 1..Len(schema_rules) |-> Logged("schema", k)]
    \o [k \in 1..Len(table_rules) |-> Logged("table", k)]
    \o [k \in 1..Len(column_rules) |-> Logged("column", k)]
    \o <<Logged("verdict", 0)>>

ColumnsInOrder == Names(df) \o TableRuleNames \o ColumnRuleNames \o <<"dfq_pass">>

DistinctNames(names) ==
    \A a, b \in 1..Len(names) : names[a] = names[b] => a = b

\* C8: in every successful apply the table rules are applied in their
\* registration order, then the column rules in the order of column_rules,
\* then dfq_pass is added; and when all the names are distinct the columns of
\* the result are the input's, the table rules', the column rules', dfq_pass.
C8_TableThenColumnThenVerdict ==
    applied.ok =>
        /\ log = StepsInOrder
        /\ DistinctNames(ColumnsInOrder) => Names(applied.v) = ColumnsInOrder

\* C8: a successful apply on a RuleSet whose column rule was registered
\* before its table rule, all names distinct
C8_ColumnRuleRegisteredFirst ==
    /\ applied.ok
    /\ calls = <<"with_column_rule", "with_table_rule">>
    /\ DistinctNames(ColumnsInOrder)
    /\ log = <<Logged("table", 1), Logged("column", 1), Logged("verdict", 0)>>

\* the last step was a column rule, and it returned a dataset
ColumnRuleApplied ==
    /\ pc = "column"
    /\ log # <<>>
    /\ log[Len(log)].phase = "column"

LastColumnRuleName == ColumnRuleNames[log[Len(log)].k]

\* b is a with one column appended: the columns of a keep their names,
\* positions and values, and the rows their number and order
OneColumnAppended(a, b) ==
    /\ Len(b.fields) = Len(a.fields) + 1
    /\ SubSeq(Names(b), 1, Len(a.fields)) = Names(a)
    /\ Len(b.rows) = Len(a.rows)
    /\ \A r \in 1..Len(a.rows) : SubSeq(b.rows[r], 1, Len(a.fields)) = a.rows[r]

\* b is a but for the values of column name
OneColumnReplaced(a, b, name) ==
    /\ Names(b) = Names(a)
    /\ Len(b.rows) = Len(a.rows)
    /\ \A r \in 1..Len(a.rows) : \A k \in 1..Len(a.fields) :
          a.fields[k].name # name => b.rows[r][k] = a.rows[r][k]

\* C9, as stated: a successful apply of a column rule returns its input with
\* exactly one new column appended.
C9_ColumnRuleAppendsOneColumn ==
    ColumnRuleApplied => OneColumnAppended(prev_df, result_df)

\* C9, amended: a successful apply of a column rule returns its input with
\* exactly one new column appended, named by new_column_name, when the input
\* has no column of that name; when it has one, that column's values are
\* replaced and no column is added.  Either way the other columns and the
\* rows' number and order are unchanged.
C9_ColumnRuleAppendsUnlessNameTaken ==
    ColumnRuleApplied =>
        IF HasField(prev_df, LastColumnRuleName)
        THEN OneColumnReplaced(prev_df, result_df, LastColumnRuleName)
        ELSE /\ OneColumnAppended(prev_df, result_df)
             /\ Names(result_df)[Len(result_df.fields)] = LastColumnRuleName

\* C9: a column rule applied to a dataset with rows and without a column of
\* the derived name, some of whose verdicts are not true
C9_AppliedToFreshName ==
    /\ ColumnRuleApplied
    /\ ~HasField(prev_df, LastColumnRuleName)
    /\ \E r \in 1..Len(result_df.rows) :
          result_df.rows[r][Len(result_df.fields)] # BoolV(TRUE)

\* the last step was a table rule, and it returned a dataset
TableRuleApplied ==
    /\ pc = "table"
    /\ log # <<>>
    /\ log[Len(log)].phase = "table"

LastTableRule == table_rules[log[Len(log)].k].rule

LastTableRuleName == TableRuleNames[log[Len(log)].k]

\* b has the rows of a, each with one and the same value in column name
Broadcast(a, b, name) ==
    /\ Len(b.rows) = Len(a.rows)
    /\ \A r \in 1..Len(a.rows) : \A k \in 1..Len(a.fields) :
          a.fields[k].name # name =>
              b.rows[r][FieldIndex(b, a.fields[k].name)] = a.rows[r][k]
    /\ \A r1, r2 \in 1..Len(b.rows) :
          b.rows[r1][FieldIndex(b, name)] = b.rows[r2][FieldIndex(b, name)]

\* C10, as stated: the output of a successful apply of any table rule has the
\* rows of the input, every one with the identical value in the derived
\* column.
C10_TableRuleBroadcasts ==
    TableRuleApplied => Broadcast(prev_df, result_df, LastTableRuleName)

GroupedCustomAggregation(rule) ==
    rule.kind = "CustomAggregationRule" /\ rule.group_by_exprs.some

\* the distinct values the rows of d have in the columns names
GroupKeys(d, names) ==
    {[k \in 1..Len(names) |-> d.rows[r][FieldIndex(d, names[k])]] :
        r \in 1..Len(d.rows)}

\* C10, amended: the output of a successful apply of a null-count rule, of a
\* calculation rule, or of a custom aggregation without group-by has the rows
\* of the input, every one with the identical value in the derived column;
\* the output of a custom aggregation with group-by (and no filter) has the
\* rows of the input once per group.
C10_TableRuleBroadcastsWithoutGroupBy ==
    TableRuleApplied =>
        IF GroupedCustomAggregation(LastTableRule)
        THEN ~LastTableRule.filter.some =>
                Len(result_df.rows) =
                    Len(prev_df.rows)
                    * Cardinality(GroupKeys(prev_df, LastTableRule.group_by_exprs.v))
        ELSE Broadcast(prev_df, result_df, LastTableRuleName)

\* C10: a custom aggregation without group-by applied to a dataset of several
\* rows that differ in the aggregated column
C10_CustomAggregationApplied ==
    /\ TableRuleApplied
    /\ LastTableRule.kind = "CustomAggregationRule"
    /\ ~GroupedCustomAggregation(LastTableRule)
    /\ Len(result_df.rows) > 1
    /\ HasField(prev_df, "score")
    /\ \E r1, r2 \in 1..Len(prev_df.rows) :
          prev_df.rows[r1][FieldIndex(prev_df, "score")]
              # prev_df.rows[r2][FieldIndex(prev_df, "score")]

(***************************************************************************)
(* What a call returns, as a function of the three sequences and of the    *)
(* dataset alone: the loops of apply as folds.                             *)
(***************************************************************************)
RECURSIVE SchemaRulesOn(_, _, _)
SchemaRulesOn(rules, k, d) ==
    IF k > Len(rules) THEN Ok(TRUE)
    ELSE IF ~SchemaRule_validate_schema(rules[k], d).ok
    THEN SchemaRule_validate_schema(rules[k], d)
    ELSE IF ~SchemaRule_validate_schema(rules[k], d).v THEN SchemaError(rules[k])
    ELSE SchemaRulesOn(rules, k + 1, d)

RECURSIVE TableRulesOn(_, _, _)
TableRulesOn(rules, k, d) ==
    IF k > Len(rules) THEN Ok(d)
    ELSE AndThen(TableRule_apply_with_ruleset(rules[k].rule, d, rules[k].column_name),
                 LAMBDA next : TableRulesOn(rules, k + 1, next))

RECURSIVE ColumnRulesOn(_, _, _)
ColumnRulesOn(rules, k, d) ==
    IF k > Len(rules) THEN Ok(d)
    ELSE AndThen(ColumnRule_apply_with_ruleset(rules[k].rule, d, rules[k].column_name),
                 LAMBDA next : ColumnRulesOn(rules, k + 1, next))

CheckColumnsOf(rules) ==
    [k \in 1..Len(rules) |->
        ColumnRule_new_column_name(rules[k].rule, rules[k].column_name)]

ApplyOn(S, T, C, d) ==
    AndThen(SchemaRulesOn(S, 1, d), LAMBDA passed :
    AndThen(TableRulesOn(T, 1, d), LAMBDA tabled :
    AndThen(ColumnRulesOn(C, 1, tabled), LAMBDA checked :
    AndThen(DqPassCol(CheckColumnsOf(C), checked), LAMBDA dq_pass_col :
            WithColumn(checked, "dfq_pass", dq_pass_col)))))

\* sq without its k-th element
Without(sq, k) == SubSeq(sq, 1, k - 1) \o SubSeq(sq, k + 1, Len(sq))

\* the columns of d that have the name
ColumnsNamed(d, name) == {k \in 1..Len(d.fields) : d.fields[k].name = name}

\* entries k and k + 1 of column_rules are the same rule on the same column
RegisteredTwice(k) ==
    /\ k \in 1..(Len(column_rules) - 1)
    /\ column_rules[k] = column_rules[k + 1]

\* C11, as stated: when the same column rule is registered twice against the
\* same column, the result of apply has one derived column for each of the
\* two registrations.
C11_TwoDerivedColumns ==
    (/\ Succeeded("apply")
     /\ table_rules = <<>>
     /\ \E k \in 1..Len(column_rules) : RegisteredTwice(k)
     /\ \A n \in SeqRange(ColumnRuleNames) : ~HasField(df, n)) =>
        Len(ret.v.fields) = Len(df.fields) + Len(column_rules) + 1

\* C11, amended: when the same column rule is registered twice in a row
\* against the same column, the second application replaces the column of the
\* first: the result of apply has exactly one column of the derived name, and
\* is the result apply returns when the rule is registered once.
C11_SecondReplacesFirst ==
    Succeeded("apply") =>
        \A k \in 1..Len(column_rules) :
            RegisteredTwice(k) =>
                /\ Cardinality(ColumnsNamed(ret.v, ColumnRuleNames[k])) = 1
                /\ ret = ApplyOn(schema_rules, table_rules, Without(column_rules, k), df)

\* C11: a successful apply under one column rule registered twice whose
\* derived column is true on one row and not on another
C11_RegisteredTwiceApplied ==
    /\ Succeeded("apply")
    /\ RegisteredTwice(1)
    /\ \E r1, r2 \in 1..Len(ret.v.rows) :
          /\ DerivedValue(ret.v, ret.v.rows[r1], column_rules[1]) = BoolV(TRUE)
          /\ DerivedValue(ret.v, ret.v.rows[r2], column_rules[1]) # BoolV(TRUE)

\* how many of the first k registration calls are of the kinds S
CountIn(k, S) == Cardinality({j \in 1..k : calls[j] \in S})

\* the index in table_rules of the rule the k-th registration call pushed
TableIndex(k) == CountIn(k, {"with_table_rule", "with_table_rule(check)"})

\* the index in column_rules of the entry the k-th registration call pushed
ColumnIndex(k) == CountIn(k, {"with_column_rule", "with_table_rule(check)"})

\* the value row has in the column of d called name
ValueOf(d, row, name) == row[FieldIndex(d, name)]

\* C12: wherever a with_table_rule(c, t, Some(check)) call sits among the
\* registration calls, it pushes into column_rules an entry whose target is
\* t.new_column_name(c); and in every successful apply the derived column of
\* that entry is the check evaluated on the column t produced, and dfq_pass is
\* false where the check is false and true only where it is true.
C12_CheckTargetsTableRuleColumn ==
    \A k \in 1..Len(calls) :
        calls[k] = "with_table_rule(check)" =>
            /\ column_rules[ColumnIndex(k)].column_name = TableRuleNames[TableIndex(k)]
            /\ applied.ok =>
                  /\ HasField(applied.v, TableRuleNames[TableIndex(k)])
                  /\ \A r \in 1..Len(applied.v.rows) :
                        /\ DerivedValue(applied.v, applied.v.rows[r],
                                        column_rules[ColumnIndex(k)])
                             = Eval(ColumnRule_expr(column_rules[ColumnIndex(k)].rule,
                                                    TableRuleNames[TableIndex(k)]).v,
                                    applied.v, applied.v.rows[r])
                        /\ DerivedValue(applied.v, applied.v.rows[r],
                                        column_rules[ColumnIndex(k)]) = BoolV(FALSE)
                             => ValueOf(applied.v, applied.v.rows[r], "dfq_pass")
                                  = BoolV(FALSE)
                        /\ ValueOf(applied.v, applied.v.rows[r], "dfq_pass") = BoolV(TRUE)
                             => DerivedValue(applied.v, applied.v.rows[r],
                                             column_rules[ColumnIndex(k)]) = BoolV(TRUE)

\* C12: a successful apply on a RuleSet whose table rule with a check was
\* registered after a column rule, where the check is false on every row and
\* the other column rule is true on some row
C12_CheckRegisteredAfterColumnRule ==
    /\ applied.ok
    /\ calls = <<"with_column_rule", "with_table_rule(check)">>
    /\ applied.v.rows # <<>>
    /\ \A r \in 1..Len(applied.v.rows) :
          DerivedValue(applied.v, applied.v.rows[r], column_rules[2]) = BoolV(FALSE)
    /\ \E r \in 1..Len(applied.v.rows) :
          DerivedValue(applied.v, applied.v.rows[r], column_rules[1]) = BoolV(TRUE)

\* the columns derived_statistics selects: extra_columns, then the table rules'
StatisticsColumns == (IF extra_columns.some THEN extra_columns.v ELSE <<>>) \o TableRuleNames

\* C13, as stated: a successful derived_statistics returns one row per row of
\* the dataset, with exactly the extra columns and then the derived column of
\* every table rule.
C13_OneRowPerInputRow ==
    Succeeded("derived_statistics") =>
        /\ Len(ret.v.rows) = Len(df.rows)
        /\ Names(ret.v) = StatisticsColumns

\* C13, amended: a successful derived_statistics returns one row per row of
\* apply's output, each the projection of that row on exactly the extra columns
\* followed by the derived column of every table rule in registration order;
\* these are one per row of the dataset when no table rule is a custom
\* aggregation with group-by.
C13_OneRowPerAppliedRow ==
    Succeeded("derived_statistics") =>
        /\ Names(ret.v) = StatisticsColumns
        /\ Len(ret.v.rows) = Len(applied.v.rows)
        /\ \A r \in 1..Len(ret.v.rows) : \A k \in 1..Len(StatisticsColumns) :
              ret.v.rows[r][k] = ValueOf(applied.v, applied.v.rows[r], StatisticsColumns[k])
        /\ (\A k \in 1..Len(table_rules) : ~GroupedCustomAggregation(table_rules[k].rule))
              => Len(ret.v.rows) = Len(df.rows)

\* C13: a successful derived_statistics with an extra column, under a table
\* rule and a column rule, on a dataset with rows
C13_StatisticsWithExtraColumn ==
    /\ Succeeded("derived_statistics")
    /\ extra_columns.some
    /\ table_rules # <<>>
    /\ column_rules # <<>>
    /\ ret.v.rows # <<>>
    /\ Len(ret.v.fields) < Len(applied.v.fields) - 1

NoBoundsError ==
    Err("Configuration", "Length rule must have either a minimum or maximum length")

\* the column-rule entry holds a length rule built with neither min nor max
NoBounds(e) == e.rule.kind = "LengthRule" /\ ~e.rule.min.some /\ ~e.rule.max.some

\* C14: a length rule with neither min nor max is registered like any other
\* rule; applied on its own it returns the Configuration error whatever the
\* dataset and the column; an apply, partition or derived_statistics on a
\* RuleSet that holds it never returns a dataset, and returns that
\* Configuration error whenever the call gets as far as the rule.
C14_NoBoundsLengthRuleFails ==
    /\ \A d \in Datasets \cup {Texts}, c \in {"name", "text", "score"} :
          ColumnRule_apply(dfq_str_length(None, None), d, c) = NoBoundsError
    /\ \A k \in 1..Len(column_rules) :
          NoBounds(column_rules[k]) =>
              /\ applied.ok = FALSE
              /\ pc = "done" => ret.ok = FALSE
              /\ (log # <<>> /\ log[Len(log)] = Logged("column", k)) =>
                    /\ applied = NoBoundsError
                    /\ pc = "done" => ret = NoBoundsError

\* C14: a partition on a RuleSet whose second column rule is a length rule
\* without bounds, registered after a rule that applies, has returned the
\* Configuration error
C14_PartitionStoppedAtNoBounds ==
    /\ Returned("partition")
    /\ Len(column_rules) = 2
    /\ NoBounds(column_rules[2])
    /\ log = <<Logged("column", 1), Logged("column", 2)>>
    /\ ret = NoBoundsError

(***************************************************************************)
(* Rules applied on their own                                              *)
(***************************************************************************)
\* a rule was applied on its own: the rule, its target, and what came back
RuleApplied(o) == pc = "done" /\ op = o

TheRule == log[1].k.rule

TheColumn == log[1].k.column_name

TwoArgCalculation(rule) ==
    rule.kind = "CalculationRule" /\ rule.calculation_type.kind \in TwoArgKinds

ExactlyOneOf(x, y) == x.some # y.some

GroupByError == Err("Configuration", "Group by requires aggregate expressions")

CustomAggregationApplied ==
    RuleApplied("TableRule::apply") /\ TheRule.kind = "CustomAggregationRule"

\* the rule has a filter that names a column the dataset does not have
FilterFails(rule, d) == rule.filter.some /\ ~Resolves(rule.filter.v, d)

\* C16, as stated: a custom aggregation with group-by and without aggregate
\* expressions returns the Configuration error when applied, and one with
\* aggregate expressions never returns it.
C16_GroupByAloneIsConfigurationError ==
    CustomAggregationApplied =>
        /\ (TheRule.group_by_exprs.some /\ ~TheRule.aggregate_exprs.some) =>
              ret = GroupByError
        /\ TheRule.aggregate_exprs.some => (ret.ok \/ ret.kind # "Configuration")

\* C16, amended: the filter of the rule is applied before the configuration is
\* looked at, so a rule whose filter the dataset cannot take returns the
\* engine's error; otherwise a rule without aggregate expressions, with or
\* without group-by, returns the Configuration error, and one with aggregate
\* expressions never returns it.
C16_ConfigurationErrorAfterFilter ==
    CustomAggregationApplied =>
        IF FilterFails(TheRule, df) THEN ret = Err("DataFusion", "no field")
        ELSE IF ~TheRule.aggregate_exprs.some THEN ret = GroupByError
        ELSE ret.ok \/ ret.kind # "Configuration"

\* C16: a custom aggregation with group-by, without aggregate expressions and
\* with a filter the dataset takes, applied to a dataset with rows
C16_GroupByWithoutAggregates ==
    /\ CustomAggregationApplied
    /\ TheRule.group_by_exprs.some
    /\ ~TheRule.aggregate_exprs.some
    /\ TheRule.filter.some
    /\ ~FilterFails(TheRule, df)
    /\ df.rows # <<>>
    /\ ret = GroupByError

LengthRuleApplied ==
    /\ RuleApplied("ColumnRule::apply")
    /\ TheRule.kind = "LengthRule"
    /\ ret.ok

\* the string row r of the dataset has in the target column
Target(r) == ValueOf(df, df.rows[r], TheColumn)

\* the verdict of the rule on row r
RuleVerdict(r) == DerivedValue(ret.v, ret.v.rows[r], log[1].k)

\* C17, as stated: a length rule with a max and no min marks a row true
\* exactly when the string is not null and has at most max characters.
C17_MaxLengthInclusive ==
    (LengthRuleApplied /\ ~TheRule.min.some /\ TheRule.max.some) =>
        \A r \in 1..Len(df.rows) :
            (RuleVerdict(r) = BoolV(TRUE))
                <=> (~IsNull(Target(r)) /\ Len(Target(r).s) <= TheRule.max.v)

\* C17: dfq_str_max_length(3) has marked a string of exactly three characters
\* false
C17_StringOfMaxLengthMarkedFalse ==
    /\ LengthRuleApplied
    /\ TheRule = dfq_str_max_length(3)
    /\ \E r \in 1..Len(df.rows) :
          /\ ~IsNull(Target(r))
          /\ Len(Target(r).s) = 3
          /\ RuleVerdict(r) = BoolV(FALSE)

\* C18, as stated: dfq_str_empty marks a row true exactly when the string is
\* not null and has no character, and false when it is not null and has one.
C18_EmptyMarksEmptyStrings ==
    (LengthRuleApplied /\ TheRule = dfq_str_empty) =>
        \A r \in 1..Len(df.rows) :
            /\ (RuleVerdict(r) = BoolV(TRUE))
                  <=> (~IsNull(Target(r)) /\ Len(Target(r).s) = 0)
            /\ (~IsNull(Target(r)) /\ Len(Target(r).s) > 0)
                  => RuleVerdict(r) = BoolV(FALSE)

\* C18: dfq_str_empty has marked the empty string false, and no row true
C18_EmptyStringMarkedFalse ==
    /\ LengthRuleApplied
    /\ TheRule = dfq_str_empty
    /\ \E r \in 1..Len(df.rows) :
          /\ Target(r) = StrV(<<>>)
          /\ RuleVerdict(r) = BoolV(FALSE)
    /\ \A r \in 1..Len(df.rows) : RuleVerdict(r) # BoolV(TRUE)

(***************************************************************************)
(* Failures and isolation of the calls on a RuleSet                        *)
(***************************************************************************)
\* what apply returns for the RuleSet as it stands and the dataset of the call
Expected == ApplyOn(schema_rules, table_rules, column_rules, df)

AfterApply == pc \in {"return", "done"} /\ op \in {"apply", "partition", "derived_statistics"}

\* what the last step logged returned, from the dataset it was given
LastStepResult ==
    CASE log[Len(log)].phase = "schema" ->
            SchemaRulesOn(<<schema_rules[log[Len(log)].k]>>, 1, df)
      [] log[Len(log)].phase = "table" ->
            TableRule_apply(table_rules[log[Len(log)].k].rule, prev_df,
                            table_rules[log[Len(log)].k].column_name)
      [] log[Len(log)].phase = "column" ->
            ColumnRule_apply(column_rules[log[Len(log)].k].rule, prev_df,
                             column_rules[log[Len(log)].k].column_name)
      [] log[Len(log)].phase = "verdict" -> DqPassCol(check_columns, result_df)

\* C19: when some step of apply fails, the steps taken are the steps of apply
\* in order up to the first one that fails, apply returns the error of that
\* step, and partition and derived_statistics return the same error.
C19_FirstFailureIsReturned ==
    (AfterApply /\ ~Expected.ok) =>
        /\ applied = Expected
        /\ log # <<>>
        /\ log = SubSeq(StepsInOrder, 1, Len(log))
        /\ applied = LastStepResult
        /\ pc = "done" => ret = applied

\* C19: a partition whose table rule and column rule applied and whose verdict
\* cast failed has returned the Column error
C19_VerdictCastFailed ==
    /\ pc = "done"
    /\ op = "partition"
    /\ log = <<Logged("table", 1), Logged("column", 1), Logged("verdict", 0)>>
    /\ ret = Err("Column", "Error casting column to boolean")

\* what the call o(extra, d) returns when it is the only call on the RuleSet
Isolated(o, extra, d) ==
    IF ~ApplyOn(schema_rules, table_rules, column_rules, d).ok
    THEN ApplyOn(schema_rules, table_rules, column_rules, d)
    ELSE CASE o = "apply" -> ApplyOn(schema_rules, table_rules, column_rules, d)
           [] o = "partition" ->
                Partition(ApplyOn(schema_rules, table_rules, column_rules, d).v, d)
           [] o = "derived_statistics" ->
                DerivedStatistics(ApplyOn(schema_rules, table_rules, column_rules, d).v,
                                  extra)

CallInFlight == pc # "idle" \/ other.pc # "idle"

\* C20: no step of apply, partition or derived_statistics changes the rules
\* of the RuleSet, every call that returns, whether it runs alone or
\* interleaved with a second call on the same or another dataset, returns
\* what it returns in isolation, and a returned result is the same when the
\* call is suspended or resumed.
C20_CallsAreIndependent ==
    [][/\ CallInFlight => UNCHANGED ruleset
       /\ pc' = "done" =>
            \/ pc = "return" /\ ret' = Isolated(op, extra_columns, df)
            \/ /\ other.pc = "done"
               /\ <<op, extra_columns, df, ret>>' =
                      <<other.op, other.extra_columns, other.df, other.ret>>
       /\ other'.pc = "done" =>
            \/ other' = other
            \/ /\ pc = "done"
               /\ <<other.op, other.extra_columns, other.df, other.ret>>' =
                      <<op, extra_columns, df, ret>>]_vars

\* C20: a partition of People and a derived_statistics of Labels, both with a
\* checked table rule and a column rule, have both returned a dataset, the
\* second started while the first was in its column rules
C20_TwoInterleavedCallsReturned ==
    /\ pc = "done"
    /\ other.pc = "done"
    /\ op = "partition"
    /\ other.op = "derived_statistics"
    /\ df = People
    /\ other.df = Labels
    /\ ret.ok
    /\ other.ret.ok
    /\ Len(check_columns) = 2
    /\ Len(other.check_columns) = 2

ColumnRuleAppliedAlone ==
    /\ RuleApplied("ColumnRule::apply")
    /\ ret.ok

NullPropagatingKinds == {"RangeRule", "ComparisonRule", "PatternRule", "LengthRule"}

\* C21: a range, comparison, pattern or length rule, negated or not, gives a
\* row whose target value is null a null in its derived column, neither true
\* nor false; the derived column of a null rule has no null.
C21_NullInNullOut ==
    ColumnRuleAppliedAlone =>
        /\ TheRule.kind \in NullPropagatingKinds =>
              \A r \in 1..Len(df.rows) :
                  IsNull(Target(r)) => IsNull(RuleVerdict(r))
        /\ TheRule.kind = "NullRule" =>
              \A r \in 1..Len(df.rows) :
                  RuleVerdict(r) = BoolV(IsNull(Target(r)) # (TheRule = dfq_not_null))

\* C21: a negated comparison has been applied to a column with a null and
\* with values on both sides of the comparison
C21_NegatedComparisonOnNull ==
    /\ ColumnRuleAppliedAlone
    /\ TheRule = dfq_not_lt(lit(IntV(85)))
    /\ \E r \in 1..Len(df.rows) : IsNull(Target(r)) /\ IsNull(RuleVerdict(r))
    /\ \E r \in 1..Len(df.rows) : RuleVerdict(r) = BoolV(TRUE)
    /\ \E r \in 1..Len(df.rows) : RuleVerdict(r) = BoolV(FALSE)

(***************************************************************************)
(* The same entries in another order                                       *)
(***************************************************************************)
\* the orders n entries can be registered in
Orders(n) == {f \in [1..n -> 1..n] : \A a, b \in 1..n : f[a] = f[b] => a = b}

InOrder(sq, f) == [k \in 1..Len(sq) |-> sq[f[k]]]

\* the dfq_pass value of every row of an applied dataset
Verdicts(d) == ColumnValues(d, d.rows, "dfq_pass")

\* C22, as stated: when apply succeeds, apply under the same table-rule and
\* column-rule entries registered in any other order, if it succeeds too,
\* gives every row the same dfq_pass value.
C22_OrderDoesNotChangeVerdict ==
    Succeeded("apply") =>
        \A f \in Orders(Len(table_rules)), g \in Orders(Len(column_rules)) :
            ApplyOn(schema_rules, InOrder(table_rules, f),
                    InOrder(column_rules, g), df).ok =>
                Verdicts(ApplyOn(schema_rules, InOrder(table_rules, f),
                                 InOrder(column_rules, g), df).v) = Verdicts(ret.v)

\* C22: apply under a minimum-length rule and then a maximum-length rule on
\* the same column has passed a row that the same two rules in the other
\* order fail
C22_LengthRulesInEitherOrder ==
    /\ Succeeded("apply")
    /\ df = People
    /\ column_rules = <<Entry("name", dfq_str_min_length(2)),
                        Entry("name", dfq_str_max_length(3))>>
    /\ ApplyOn(schema_rules, table_rules, <<column_rules[2], column_rules[1]>>, df).ok
    /\ \E r \in 1..Len(df.rows) :
          /\ Verdicts(ret.v)[r] = BoolV(TRUE)
          /\ Verdicts(ApplyOn(schema_rules, table_rules,
                              <<column_rules[2], column_rules[1]>>, df).v)[r]
                = BoolV(FALSE)

\* a column rule was applied on its own, whatever came back
ColumnRuleTried == RuleApplied("ColumnRule::apply")

TheNewColumnName == ColumnRule_new_column_name(TheRule, TheColumn)

\* C23, as stated: for every built-in column rule and target column,
\* new_column_name is the column, "_" and the rule's name().
C23_NewColumnNameIsColumnAndName ==
    ColumnRuleTried => TheNewColumnName = TheColumn \o "_" \o ColumnRule_name(TheRule)

\* C23, amended: new_column_name is the column, "_" and name() for null,
\* range, pattern and comparison rules; it is the column and "_length" for a
\* length rule, whatever its bounds and its name(), and the column, "_" and
\* the rule_name given to the constructor for a custom rule, whose name() is
\* "custom".  In every case a successful apply returns the columns of its
\* input and the column of that name, appended unless the input has it.
C23_NewColumnNamePerVariant ==
    ColumnRuleTried =>
        /\ TheRule.kind \in {"NullRule", "RangeRule", "PatternRule", "ComparisonRule"} =>
              TheNewColumnName = TheColumn \o "_" \o ColumnRule_name(TheRule)
        /\ TheRule.kind = "LengthRule" =>
              /\ TheNewColumnName = TheColumn \o "_length"
              /\ ColumnRule_name(TheRule)
                    \in {"length_range", "min_length", "max_length", "length"}
        /\ TheRule.kind = "CustomRule" =>
              /\ TheNewColumnName = TheColumn \o "_" \o TheRule.rule_name
              /\ ColumnRule_name(TheRule) = "custom"
        /\ ret.ok =>
              Names(ret.v) = IF HasField(df, TheNewColumnName) THEN Names(df)
                             ELSE Append(Names(df), TheNewColumnName)

\* C23: a minimum-length rule, whose name() is min_length, has added the
\* column text_length, and no column text_min_length
C23_MinLengthAddsLengthColumn ==
    /\ ColumnRuleTried
    /\ ret.ok
    /\ TheRule = dfq_str_min_length(2)
    /\ TheColumn = "text"
    /\ ColumnRule_name(TheRule) = "min_length"
    /\ Names(ret.v) = Append(Names(df), "text_length")

\* the number of characters of the string of row r
TargetLength(r) == Len(Target(r).s)

NullCountRuleApplied ==
    /\ RuleApplied("TableRule::apply")
    /\ TheRule.kind = "NullCountRule"
    /\ ret.ok

\* the rows of df whose target value is null
NullRows == {r \in 1..Len(df.rows) : IsNull(Target(r))}

\* the value row r of d has in the derived column of the rule
Broadcasted(rule, d, r) ==
    ValueOf(d, d.rows[r], TableRule_new_column_name(rule, TheColumn))

\* C25: the null-count rule gives every row the number of rows whose target
\* value is null, the not-null-count rule the number of rows whose target
\* value is not null, and the two add up to the number of rows.
C25_NullAndNotNullCounts ==
    NullCountRuleApplied =>
        /\ Len(ret.v.rows) = Len(df.rows)
        /\ TableRule_apply(dfq_null_count, df, TheColumn).ok
        /\ TableRule_apply(dfq_not_null_count, df, TheColumn).ok
        /\ \A r \in 1..Len(df.rows) :
              /\ Broadcasted(TheRule, ret.v, r) =
                    IntV(IF UnwrapOrDefault(TheRule.negated)
                         THEN Len(df.rows) - Cardinality(NullRows)
                         ELSE Cardinality(NullRows))
              /\ RSub(IntV(Len(df.rows)),
                      Broadcasted(dfq_null_count,
                                  TableRule_apply(dfq_null_count, df, TheColumn).v, r))
                    = Broadcasted(dfq_not_null_count,
                                  TableRule_apply(dfq_not_null_count, df, TheColumn).v, r)

\* C25: the null-count rule has given every row of a dataset with one null
\* and four strings the count 1
C25_OneNullCounted ==
    /\ NullCountRuleApplied
    /\ TheRule = dfq_null_count
    /\ df = Texts
    /\ Cardinality(NullRows) = 1
    /\ \A r \in 1..Len(df.rows) : Broadcasted(TheRule, ret.v, r) = IntV(1)

SchemaRuleTried == RuleApplied("SchemaRule::validate_schema")

\* what the rule that requires column c to be nullable, or not to be,
\* answers on df
Nullable(c, expected) ==
    SchemaRule_validate_schema(ColumnNullableRule(c, expected), df)

\* C26: on a schema without the column, the nullable, not-nullable and type
\* rules fail with ColumnNotFound; on a schema with it, exactly one of the
\* nullable and the not-nullable rule answers true and the other fails with
\* ColumnNullabilityMismatch, and the type rule answers true when the type is
\* the expected one and fails with TypeMismatch when it is not; no built-in
\* schema rule answers Ok(false).
C26_SchemaRuleOutcomes ==
    SchemaRuleTried =>
        /\ ret # Ok(FALSE)
        /\ (TheRule.kind \in {"ColumnTypeRule", "ColumnNullableRule"}
               /\ ~HasField(df, TheColumn)) =>
              (~ret.ok /\ ret.kind = "ColumnNotFound")
        /\ (TheRule.kind = "ColumnNullableRule" /\ HasField(df, TheColumn)) =>
              /\ ret = Nullable(TheColumn, TheRule.expected_nullable)
              /\ \E expected \in BOOLEAN :
                    /\ Nullable(TheColumn, expected) = Ok(TRUE)
                    /\ ~Nullable(TheColumn, ~expected).ok
                    /\ Nullable(TheColumn, ~expected).kind = "ColumnNullabilityMismatch"
        /\ (TheRule.kind = "ColumnTypeRule" /\ HasField(df, TheColumn)) =>
              IF df.fields[FieldIndex(df, TheColumn)].type = TheRule.expected_type
              THEN ret = Ok(TRUE)
              ELSE ~ret.ok /\ ret.kind = "TypeMismatch"

\* C26: the rule that requires a column to be nullable has failed with
\* ColumnNullabilityMismatch on a schema whose column is not
C26_NullabilityMismatch ==
    /\ SchemaRuleTried
    /\ TheRule = ColumnNullableRule("name", TRUE)
    /\ HasField(df, "name")
    /\ ~df.fields[FieldIndex(df, "name")].nullable
    /\ ~ret.ok
    /\ ret.kind = "ColumnNullabilityMismatch"

(***************************************************************************)
(* The running dataset of the table rules                                  *)
(***************************************************************************)
\* the last step taken is the table rule LastTableRule, on prev_df
TableStepTaken ==
    /\ log # <<>>
    /\ log[Len(log)].phase = "table"

LastTableStep == log[Len(log)].k

LastTableTarget == table_rules[LastTableStep].column_name

TableStepFailed == pc \in {"return", "done"} /\ ~applied.ok

\* the target is the derived column of a table rule registered later, and of
\* no column the rule is given
TargetsLaterRule ==
    /\ \E j \in (LastTableStep + 1)..Len(table_rules) :
          TableRuleNames[j] = LastTableTarget
    /\ ~HasField(prev_df, LastTableTarget)

\* every table rule is applied to the dataset the table rules before it made
OnRunningDataset ==
    /\ Ok(prev_df) = TableRulesOn(SubSeq(table_rules, 1, LastTableStep - 1), 1, df)
    /\ \A j \in 1..(LastTableStep - 1) : HasField(prev_df, TableRuleNames[j])

\* C27, as stated: each table rule is applied to the running dataset, which
\* holds the broadcast columns of the table rules registered before it, and
\* a table rule whose target is the derived column of a table rule registered
\* later fails.
C27_TargetOfLaterRuleFails ==
    TableStepTaken =>
        /\ OnRunningDataset
        /\ TargetsLaterRule => TableStepFailed

\* C27, amended: each table rule is applied to the running dataset, which
\* holds the broadcast columns of the table rules registered before it.  A
\* null-count or calculation rule aggregates its target column: it fails when
\* the running dataset has no such column, as when the target is the derived
\* column of a rule registered later, and max over the derived column of an
\* earlier rule succeeds.  A custom-aggregation rule reads the columns of its
\* own expressions and takes from its target only the name of its derived
\* column: whether it fails does not depend on the target.
C27_RunningDatasetOfTableRules ==
    TableStepTaken =>
        /\ OnRunningDataset
        /\ LastTableRule.kind \in {"NullCountRule", "CalculationRule"} =>
              /\ ~HasField(prev_df, LastTableTarget) => TableStepFailed
              /\ (LastTableRule = dfq_max /\ HasField(prev_df, LastTableTarget))
                    => ~TableStepFailed
        /\ LastTableRule.kind = "CustomAggregationRule" =>
              TableStepFailed = ~CustomAggregationRule_subquery(LastTableRule, prev_df).ok

\* C27: max over the null count of name, registered before the null-count
\* rule, has failed at the first table rule
C27_MaxBeforeNullCountFailed ==
    /\ TableStepTaken
    /\ Len(table_rules) = 2
    /\ table_rules[1] = Entry("name_null_count", dfq_max)
    /\ table_rules[2] = Entry("name", dfq_null_count)
    /\ TargetsLaterRule
    /\ LastTableStep = 1
    /\ TableStepFailed

(***************************************************************************)
(* A column rule on its own against the verdict of the RuleSet             *)
(***************************************************************************)
\* the dataset the column rules are given: the input after the table rules
Tabled == TableRulesOn(table_rules, 1, df).v

\* column rule k evaluated on its own yields false on row r
FalseOnItsOwn(k, r) ==
    /\ ColumnRule_apply(column_rules[k].rule, Tabled, column_rules[k].column_name).ok
    /\ DerivedValue(ColumnRule_apply(column_rules[k].rule, Tabled,
                                     column_rules[k].column_name).v,
                    ColumnRule_apply(column_rules[k].rule, Tabled,
                                     column_rules[k].column_name).v.rows[r],
                    column_rules[k])
          = BoolV(FALSE)

\* C28, as stated: a row on which some registered column rule, evaluated on
\* its own, yields false has dfq_pass false in the result of apply, and is in
\* the fail output of partition and not in the pass output.
C28_FalseRuleFailsRow ==
    (pc = "done" /\ op \in {"apply", "partition"} /\ ret.ok) =>
        \A r \in 1..Len(applied.v.rows) :
            (\E k \in 1..Len(column_rules) : FalseOnItsOwn(k, r)) =>
                /\ Verdicts(applied.v)[r] = BoolV(FALSE)
                /\ op = "partition" =>
                      /\ InSeq(applied.v.rows[r], ret.v.fail_df.rows)
                      /\ ~InSeq(InputPart(applied.v.rows[r]), ret.v.pass_df.rows)

\* C28: partition under a minimum-length rule of 2 and then a maximum-length
\* rule of 3 on name has put the row whose name has one character in the pass
\* output
C28_ShortNameInPassOutput ==
    /\ Succeeded("partition")
    /\ df = People
    /\ table_rules = <<>>
    /\ column_rules = <<Entry("name", dfq_str_min_length(2)),
                        Entry("name", dfq_str_max_length(3))>>
    /\ FalseOnItsOwn(1, 4)
    /\ df.rows[4][2] = StrV(<<"B">>)
    /\ Verdicts(applied.v)[4] = BoolV(TRUE)
    /\ InSeq(df.rows[4], ret.v.pass_df.rows)

(***************************************************************************)
(* Registration                                                            *)
(***************************************************************************)
\* b is a with n more entries at its end
Appended(a, b, n) ==
    /\ Len(b) = Len(a) + n
    /\ SubSeq(b, 1, Len(a)) = a

Registered(call) == calls' = Append(calls, call)

\* C29: a registration call appends and does nothing else: with_schema_rule
\* one entry to schema_rules, with_column_rule one entry to column_rules,
\* with_table_rule one entry to table_rules and, exactly when it is given a
\* check, one entry to column_rules; no entry is reordered, replaced or
\* removed, and column_rules has as many entries as there were calls of
\* with_column_rule and calls of with_table_rule with a check.
C29_RegistrationAppends ==
    [][/\ Registered("with_schema_rule") =>
            /\ Appended(schema_rules, schema_rules', 1)
            /\ UNCHANGED <<column_rules, table_rules>>
       /\ Registered("with_column_rule") =>
            /\ Appended(column_rules, column_rules', 1)
            /\ UNCHANGED <<schema_rules, table_rules>>
       /\ Registered("with_table_rule") =>
            /\ Appended(table_rules, table_rules', 1)
            /\ UNCHANGED <<schema_rules, column_rules>>
       /\ Registered("with_table_rule(check)") =>
            /\ Appended(table_rules, table_rules', 1)
            /\ Appended(column_rules, column_rules', 1)
            /\ UNCHANGED schema_rules
       /\ calls' = calls => UNCHANGED ruleset
       /\ calls' # calls => UNCHANGED <<pc, callvars>>
       /\ Len(column_rules') =
             Cardinality({k \in 1..Len(calls') :
                            calls'[k] \in {"with_column_rule", "with_table_rule(check)"}})
       /\ Len(table_rules') =
             Cardinality({k \in 1..Len(calls') :
                            calls'[k] \in {"with_table_rule", "with_table_rule(check)"}})
      ]_vars

\* C29: a table rule with a check and then a column rule on the same column
\* have been registered: one table rule, two column rules, the check first
C29_CheckThenColumnRule ==
    /\ calls = <<"with_table_rule(check)", "with_column_rule">>
    /\ Len(table_rules) = 1
    /\ Len(column_rules) = 2
    /\ column_rules[1].column_name = TableRuleNames[1]
    /\ schema_rules = <<>>

WithoutAggregates == CustomAggregationApplied /\ ~TheRule.aggregate_exprs.some

\* C30, as stated: a custom-aggregation rule without aggregate expressions
\* fails with a Configuration error on every apply.
C30_NoAggregatesIsConfigurationError ==
    WithoutAggregates => (~ret.ok /\ ret.kind = "Configuration")

\* C30, amended: a custom-aggregation rule without aggregate expressions,
\* with or without group-by, window and ordering, returns no dataset on any
\* apply: it fails with the Configuration error, unless it has a filter that
\* the dataset cannot take, which fails first with the engine's error; the
\* rule of dfq_custom_agg, which has no filter, fails with the Configuration
\* error on every dataset.
C30_NoAggregatesAlwaysFails ==
    WithoutAggregates =>
        /\ ~ret.ok
        /\ ret.kind = IF FilterFails(TheRule, df) THEN "DataFusion" ELSE "Configuration"
        /\ ~TheRule.filter.some => ret = GroupByError
        /\ TheRule = dfq_custom_agg(TheRule.aggregation, TheRule.rule_name)
              => ret = GroupByError

\* C30: the rule of dfq_custom_agg has failed with the Configuration error
\* on a dataset that has the column of its aggregation
C30_CustomAggFailed ==
    /\ WithoutAggregates
    /\ TheRule = dfq_custom_agg("max_score", "max_score")
    /\ df = People
    /\ TheColumn = "score"
    /\ ret = GroupByError

====
